---- MODULE Spec2Model ----
(***************************************************************************)
(* Verification model of the gcode-utilities repository:                   *)
(*   - toolpaths.py   : ToolPath parameter object and the generators       *)
(*                      ToolPathRectangle, ToolPathCylinder, ToolPathFace, *)
(*                      ToolPathSlotUniDi                                  *)
(*   - gcode_utils.py : GcodeUtils text transforms and zmultipass          *)
(*   - operations.py  : Operation, OperationBore, OperationFace            *)
(*                                                                         *)
(* Numbers.  Lengths are integers counted in units of 0.0001 mm, so        *)
(* 3.175 mm is 31750 and the 3-decimal output format is a rounding to a    *)
(* multiple of 10 units.  Arithmetic is exact and a value that lies        *)
(* exactly between two 3-decimal numbers is rounded half-to-even on its    *)
(* magnitude.  Binary floating-point error is modelled in one place, the   *)
(* length of np.arange in zmultipass, where it changes the number of       *)
(* passes: ArangeExcess lists the inputs whose quotient comes out above    *)
(* the exact integer.                                                      *)
(*                                                                         *)
(* An optional value (Python None or a float) is a sequence of length 0    *)
(* or 1.                                                                   *)
(***************************************************************************)
EXTENDS Integers, Sequences, FiniteSets, TLC

VARIABLES
    \* ---- ToolPath object (toolpaths.py) ----
    kind,            \* class of the object: "Rectangle" | "Cylinder" | "Face" |
                     \* "SlotUniDi" | "ToolPath"
    z_top, z_bottom, z_retract_dist, stepdown, stepover, tool_dia,
    tool_angle, operation,
    x, y, width, height,            \* ToolPathRectangle geometry
    radius, bore, segments,         \* ToolPathCylinder geometry
    depth,                          \* ToolPathSlotUniDi depth (x, y: Face and Slot too)
    gcode,           \* ToolPath._gcode: the sequence of emitted lines
    raised,          \* exception of the last call, "" when it returned, "NoReturn"
                     \* when the call never returns
    lastcall,        \* name of the last method called on the object
    pre,             \* the fields a call can change, as they were when the last call
                     \* started, and the call before it:
                     \* [gcode, stepdown, z_retract_dist, lastcall, raised]
    ncalls,          \* number of setter calls made so far
    \* ---- GcodeUtils object (gcode_utils.py) ----
    gu_gcode,        \* GcodeUtils._gcode: sequence of lines, a line a sequence of words
    gu_filename,     \* GcodeUtils._filename: <<>> (None) or <<name>>
    gu_raised,       \* exception of the last call, "" when it returned
    gu_hist,         \* the calls made so far: [op, arg, pre, raised] records
    gu_ret,          \* what the last analysis call returned / computed
    \* ---- Operation object (operations.py) ----
    op_kind,         \* class of the object: "Bore" | "Face" | "None"
    op_part,         \* Operation._part: what the CAD layer answers about the part,
                     \* [top, bores]: bounding_box().max.Z and the circular holes
                     \* of its upward faces, each [diameter, depth, top]
    op_tool,         \* Operation._tool: [diameter, length, position]
    op_stock,        \* Operation._stock: its bounding box [min, max] and the
                     \* number of volumes subtracted from it
    op_doc, op_woc,  \* Operation._doc, Operation._woc
    op_stock_to_leave_radial, op_stock_to_leave_axial,
    op_diameter_min, \* OperationBore._diameter_min: <<>> (None) or <<value>>
    op_diameter_max, \* OperationBore._diameter_max: <<>>, <<value>> or Inf
    op_bores,        \* OperationBore._bores
    op_ops,          \* Operation._ops: the generated lines
    op_locations,    \* Operation._locations: <<>> (None) or <<sequence of positions>>
    op_file,         \* the file save_gcode() wrote: <<>> or <<lines>>
    op_raised,       \* exception of the last call, "" when it returned, "NoReturn"
    op_hist,         \* the calls made so far: <<name, argument>> pairs
    \* ---- FusionSpeedFix object (speed_fix.py) ----
    sf_retract_height,     \* FusionSpeedFix._retract_height
    sf_positioning_speed,  \* FusionSpeedFix._positioning_speed
    sf_z_state,            \* FusionSpeedFix._z_state: "Unknown" | "Retracted" | "Cutting"
    sf_hist          \* the calls of speed_fix made so far: [gcode, ret] with the
                     \* [retract_height, positioning_speed, z_state] of the
                     \* object when the call started

tpvars == <<kind, z_top, z_bottom, z_retract_dist, stepdown, stepover, tool_dia,
            tool_angle, operation, x, y, width, height, radius, bore, segments,
            depth, gcode, raised, lastcall, pre, ncalls>>
guvars == <<gu_gcode, gu_filename, gu_raised, gu_hist, gu_ret>>
opvars == <<op_kind, op_part, op_tool, op_stock, op_doc, op_woc,
            op_stock_to_leave_radial, op_stock_to_leave_axial, op_diameter_min,
            op_diameter_max, op_bores, op_ops, op_locations, op_file, op_raised,
            op_hist>>
sfvars == <<sf_retract_height, sf_positioning_speed, sf_z_state, sf_hist>>
vars == <<tpvars, guvars, opvars, sfvars>>

(***************************************************************************)
(* Bounds of the model                                                     *)
(***************************************************************************)
MaxSetterCalls == 2     \* setter calls made on one ToolPath object
MaxOps == 2             \* GcodeUtils calls made on one program
MaxLines == 2           \* lines of an input G-code program
MaxOpCalls == 3          \* calls made on one Operation object

(***************************************************************************)
(* Program constants and class defaults                                    *)
(***************************************************************************)
RETRACT_MIN == 5000            \* 0.5 mm
DefaultToolDia == 31750        \* 3.175 mm
DefaultZBottom == -30000       \* -3.0 mm
DefaultZRetractDist == 30000   \* 3.0 mm
DefaultStepdown == 2500        \* 0.25 mm
DefaultSegments == 30

None == <<>>
Some(v) == <<v>>
Abs(n) == IF n < 0 THEN -n ELSE n
Neg(n) == 0 - n

(***************************************************************************)
(* Numeric formatting core                                                 *)
(***************************************************************************)
\* n/d rounded to the nearest integer, ties to the even magnitude (d > 0).
RoundHalfEven(n, d) ==
    LET a == Abs(n)
        q == a \div d
        r == a % d
        m == IF 2 * r > d THEN q + 1
             ELSE IF 2 * r < d THEN q
             ELSE IF q % 2 = 0 THEN q ELSE q + 1
    IN  IF n < 0 THEN Neg(m) ELSE m

\* (a format of 2 decimals)
to_str_q_2dec(n, d) ==
    IF n % (10000 * d) = 0 THEN n \div d ELSE 100 * RoundHalfEven(n, 100 * d)

\* _to_str of the value n/d units, read back as a number of units: an integer
\* number of millimetres is printed exactly, anything else with 3 decimals.
to_str_q(n, d) ==
    IF n % (10000 * d) = 0 THEN n \div d ELSE 10 * RoundHalfEven(n, 10 * d)

to_str(v) == to_str_q(v, 1)

\* ceil(a / b) for a >= 0, b > 0
Ceil(a, b) == (a + b - 1) \div b

\* smallest and largest element of a non-empty sequence of numbers
SeqMin(sq) == CHOOSE v \in {sq[k] : k \in 1..Len(sq)} : \A k \in 1..Len(sq) : v <= sq[k]
SeqMax(sq) == CHOOSE v \in {sq[k] : k \in 1..Len(sq)} : \A k \in 1..Len(sq) : v >= sq[k]
Near(a, b, tol) == Abs(a - b) <= tol

(***************************************************************************)
(* Emitted lines of a ToolPath generator.  A line is a record:             *)
(*   cmd  the command word or ";" for a comment line, "" for a blank line  *)
(*   x, y, z, f  the optional X/Y/Z/F values as printed by _to_str         *)
(*   r, idx      for cylinder points, whose X/Y are r*cos(a)+x, r*sin(a)+y *)
(*               with a = angles[idx]: the circle radius and the index     *)
(*   txt  the text of a comment, n the numbers the comment carries         *)
(***************************************************************************)
Line(cmd, px, py, pz, pf, txt, n) ==
    [cmd |-> cmd, x |-> px, y |-> py, z |-> pz, f |-> pf,
     r |-> None, idx |-> None, txt |-> txt, n |-> n]

Comment(txt) == Line(";", None, None, None, None, txt, None)
Blank == Line("", None, None, None, None, "", None)

\* header block common to Rectangle and Cylinder (toolpaths.py 692-697)
SetupBlock ==
    << Line("G21", None, None, None, None, "Units: mm", None),
       Line("G94", None, None, None, None, "Speed in units per minute", None),
       Line("G17", None, None, None, None, "XY Plane", None),
       Line("G54", None, None, None, None, "Coordinate system 1", None),
       Line("G90", None, None, None, None, "ABS positioning mode", None),
       Blank >>

SpindleBlock ==
    << Comment("Start Spindle"),
       Line("M3", None, None, None, None, "S5000", None),
       Line("G4", None, None, None, None, "P1 ; Wait to spin up", None),
       Blank >>

(***************************************************************************)
(* ToolPath: parameters, setters, ParamCheck  (toolpaths.py 29-328)        *)
(***************************************************************************)
DefaultSpeedFeed == 300
DefaultSpeedPosition == 1500

tool_rad == tool_dia \div 2

\* Values the setters are called with (units of 0.0001 mm; degrees for the
\* cutter angle).  Negative inputs exercise the sign normalisation.
ZTopVals == {0, 10000}
ZBottomVals == IF kind = "Cylinder" THEN {-10000, 0, 5000} ELSE {-150000, 0, 5000}
\* 0.3 is given to the facing paths only and 0.2 to the slots only: decimal
\* fractions, which doubles subtract with rounding error
StepdownVals ==
    IF kind = "Face" THEN {7500, 20000, -60000, 3000}
    ELSE IF kind = "SlotUniDi" THEN {7500, 20000, -60000, 2000}
    ELSE {7500, 20000, -60000}
StepoverVals == {12700, -31750, 50000}
ToolDiaVals == {12700, 31750}
RetractVals == {2000, -20000}
AngleVals == {0, 60}
OperationVals == {"Pocket", "Profile"}

\* v*cos(angle) for the cutter angles of AngleVals (cos 60 = 1/2; every
\* modelled Z distance is an even number of units).
CosDeg(v, angle) == IF angle = 60 THEN v \div 2 ELSE v

\* ParamCheck: the exception it raises ("" for none) and the values it
\* leaves in z_retract_dist and stepdown.
ParamCheckStepoverBad == tool_dia < stepover

\* (ParamCheck without the adjustment of the retract distance)
ParamCheckNoRetractClamp ==
    IF z_top < z_bottom
    THEN [err |-> "ValueError", z_retract_dist |-> z_retract_dist, stepdown |-> stepdown]
    ELSE LET sd == IF stepdown > z_top - z_bottom THEN z_top - z_bottom ELSE stepdown
         IN  [err |-> IF ParamCheckStepoverBad THEN "ValueError" ELSE "",
              z_retract_dist |-> z_retract_dist, stepdown |-> sd]

ParamCheck ==
    IF z_top < z_bottom
    THEN [err |-> "ValueError", z_retract_dist |-> z_retract_dist, stepdown |-> stepdown]
    ELSE LET zr == IF z_retract_dist < RETRACT_MIN THEN RETRACT_MIN ELSE z_retract_dist
             sd == IF stepdown > z_top - z_bottom THEN z_top - z_bottom ELSE stepdown
         IN  [err |-> IF ParamCheckStepoverBad THEN "ValueError" ELSE "",
              z_retract_dist |-> zr, stepdown |-> sd]

Fields == [gcode |-> gcode, stepdown |-> stepdown, z_retract_dist |-> z_retract_dist,
           lastcall |-> lastcall, raised |-> raised]

\* A setter call: everything but the field it assigns is unchanged.
SetterFrame(name) ==
    /\ ncalls < MaxSetterCalls
    /\ raised # "NoReturn"
    /\ ncalls' = ncalls + 1
    /\ lastcall' = name
    /\ raised' = ""
    /\ pre' = Fields
    /\ UNCHANGED <<kind, gcode, x, y, width, height, radius, bore, segments, depth, guvars, opvars,
                 sfvars>>

set_z_top ==
    \E v \in ZTopVals :
        /\ SetterFrame("z_top")
        /\ z_top' = v
        /\ UNCHANGED <<z_bottom, z_retract_dist, stepdown, stepover, tool_dia, tool_angle, operation>>

set_z_bottom ==
    \E v \in ZBottomVals :
        /\ SetterFrame("z_bottom")
        /\ z_bottom' = v
        /\ UNCHANGED <<z_top, z_retract_dist, stepdown, stepover, tool_dia, tool_angle, operation>>

set_z_retract_dist ==
    \E v \in RetractVals :
        /\ SetterFrame("z_retract_dist")
        /\ z_retract_dist' = Abs(v)
        /\ UNCHANGED <<z_top, z_bottom, stepdown, stepover, tool_dia, tool_angle, operation>>

set_stepdown ==
    \E v \in StepdownVals :
        /\ SetterFrame("stepdown")
        /\ stepdown' = Abs(v)
        /\ UNCHANGED <<z_top, z_bottom, z_retract_dist, stepover, tool_dia, tool_angle, operation>>

set_stepover ==
    \E v \in StepoverVals :
        /\ SetterFrame("stepover")
        /\ stepover' = Abs(v)
        /\ UNCHANGED <<z_top, z_bottom, z_retract_dist, stepdown, tool_dia, tool_angle, operation>>

set_tool_dia ==
    \E v \in ToolDiaVals :
        /\ SetterFrame("tool_dia")
        /\ tool_dia' = Abs(v)
        /\ UNCHANGED <<z_top, z_bottom, z_retract_dist, stepdown, stepover, tool_angle, operation>>

set_tool_angle ==
    \E v \in AngleVals :
        /\ SetterFrame("tool_angle")
        /\ tool_angle' = Abs(v)
        /\ UNCHANGED <<z_top, z_bottom, z_retract_dist, stepdown, stepover, tool_dia, operation>>

set_operation ==
    \E v \in OperationVals :
        /\ SetterFrame("operation")
        /\ operation' = v
        /\ UNCHANGED <<z_top, z_bottom, z_retract_dist, stepdown, stepover, tool_dia, tool_angle>>

(***************************************************************************)
(* ToolPathRectangle.GCode  (toolpaths.py 565-740)                         *)
(***************************************************************************)
\* (the offset without the sign swap of a pocket)
RectToolOffsetNoSwap(op, rad) == rad

\* rt: the tool radius with the sign of the operation (584-587)
RectToolOffset(op, rad) == IF op = "Pocket" THEN Neg(rad) ELSE rad

\* cutter-angle XY offset for a Z distance dz (589-596, 628-634)
RectAngleOffset(dz) ==
    IF tool_angle > 0
    THEN (IF operation = "Pocket" THEN Neg(CosDeg(dz, tool_angle)) ELSE CosDeg(dz, tool_angle))
    ELSE 0

\* n_passes (577-582), for a stepdown sd > 0
RectNPasses(sd) == Ceil(z_top - z_bottom, sd) + 1

\* the outline at z_top: positions[0..4] (598-616)
RectTopOutline ==
    LET rt == RectToolOffset(operation, tool_rad)
        a0 == RectAngleOffset(z_top - z_bottom)
        x_min == Neg(rt) + a0
        x_max == width + rt - a0
        y_min == Neg(rt) + a0
        y_max == height + rt - a0
    IN  << <<x_min, y_min, z_top>>, <<x_max, y_min, z_top>>, <<x_max, y_max, z_top>>,
           <<x_min, y_max, z_top>>, <<x_min, y_min, z_top>> >>

\* the descent loop (619-660): every iteration appends the five corners of one
\* pass, computed from the five rows before them.
RECURSIVE RectDescent(_, _, _)
RectDescent(pos, z, sd) ==
    IF z > z_bottom
    THEN LET zn == IF z - sd < z_bottom THEN z_bottom ELSE z - sd
             a == RectAngleOffset(z - zn)
             i == Len(pos) + 1
             ll == <<pos[i - 5][1] - a, pos[i - 5][2] - a, zn>>
             lr == <<pos[i - 4][1] + a, pos[i - 4][2] - a, zn>>
             ur == <<pos[i - 3][1] + a, pos[i - 3][2] + a, zn>>
             ul == <<pos[i - 2][1] - a, pos[i - 2][2] + a, zn>>
         IN  CHOOSE r \in {RectDescent(p, zn, sd) : p \in {pos \o <<ll, lr, ur, ul, ll>>}} : TRUE
    ELSE pos

\* rows of the (n_passes + 1) * 5 array that the loop never wrote stay
\* np.zeros (608-611)
RectZeroRows(n) == [k \in 1..n |-> <<0, 0, 0>>]

\* the positions that are emitted: the array, offset by (x, y), without its
\* first five rows (662-664, 719-720)
RectPositions(sd) ==
    LET filled == RectDescent(RectTopOutline, z_top, sd)
        n_positions == (RectNPasses(sd) + 1) * 5
        all == filled \o RectZeroRows(n_positions - Len(filled))
        moved == [k \in 1..Len(all) |-> <<all[k][1] + x, all[k][2] + y, all[k][3]>>]
    IN  SubSeq(moved, 6, Len(moved))

\* the emission loop (722-731): before every fifth position a blank line and
\* the pass comment, then one G1 line per position
RectPassLines(ps, n_passes) ==
    [j \in 1..(7 * (Len(ps) \div 5)) |->
        LET g == (j - 1) \div 7
            o == (j - 1) % 7
            k == 5 * g + (o - 1)
        IN  IF o = 0 THEN Blank
            ELSE IF o = 1 THEN Line(";", None, None, None, None, "Pass", <<g + 1, n_passes - 1>>)
            ELSE Line("G1", Some(to_str(ps[k][1])), Some(to_str(ps[k][2])),
                      Some(to_str(ps[k][3])), None, "", None)]

RectangleLines(sd, zr) ==
    LET ps == RectPositions(sd)
        n_passes == RectNPasses(sd)
        top == RectTopOutline
        z_retract_abs == to_str(z_top + zr)
    IN  << Comment("-----------------------"),
           Line(";", Some(to_str(width)), Some(to_str(height)), None, None, "Rectangle", None),
           Comment("Code Generated by"),
           Line(";", Some(to_str(x)), Some(to_str(y)), None, None, "position", None),
           Line(";", None, None, Some(to_str(z_top)), None, "z top", None),
           Line(";", None, None, Some(to_str(z_bottom)), None, "z bottom", None),
           Line(";", None, None, Some(to_str(sd)), None, "DOC", None),
           Line(";", None, None, None, None, "passes", <<n_passes>>),
           Line(";", None, None, None, None, "tool dia", <<to_str(tool_dia)>>),
           Comment(operation),
           Blank >>
        \o SetupBlock
        \o << Comment("Position for start"),
              Line("G0", None, None, Some(z_retract_abs), Some(DefaultSpeedPosition), "", None),
              Line("G0", Some(to_str(top[1][1] + x)), Some(to_str(top[1][2] + y)), None, None, "", None),
              Blank >>
        \o SpindleBlock
        \o << Comment("Move to start position"),
              Line("G1", None, None, Some(to_str(z_top)), Some(DefaultSpeedFeed), "", None) >>
        \o RectPassLines(ps, n_passes)
        \o << Blank, Comment("Retract"),
              Line("G0", None, None, Some(z_retract_abs), Some(DefaultSpeedPosition), "", None),
              Line("G0", Some(0), Some(0), None, None, "", None) >>


(***************************************************************************)
(* ToolPathCylinder.GCode  (toolpaths.py 848-1011)                         *)
(***************************************************************************)
\* a G0/G1 line to point idx of the circle of radius rr about (x, y); the x
\* and y fields hold the centre, r and idx the point on the circle
CylPoint(cmd, rr, i, pz) ==
    [cmd |-> cmd, x |-> Some(x), y |-> Some(y), z |-> pz, f |-> None,
     r |-> Some(rr), idx |-> Some(i), txt |-> "", n |-> None]

\* (the pass count without the additional pass at the bottom)
CylNPassesNoExtra(sd) == Ceil(z_top - z_bottom, sd)

\* n_passes (869-876) for a stepdown sd > 0
CylNPasses(sd) ==
    LET c == Ceil(z_top - z_bottom, sd)
    IN  IF (z_top - z_bottom) % sd # 0 /\ stepover = 0 THEN c + 1 ELSE c

\* (the helix radius with the stepover left out)
r_helix_no_stepover == IF bore THEN radius - tool_rad ELSE radius + tool_rad

\* radius of the helix (883-888) and of the finishing cut (898-903)
r_helix == IF bore THEN radius - (tool_rad + stepover) ELSE radius + (tool_rad + stepover)
r_finish == IF bore THEN radius - tool_rad ELSE radius + tool_rad

\* z_helix = linspace(z_top, z_top - stepdown, segments + 1), each entry kept
\* as a numerator over the denominator `segments` (894-896)
z_helix0(sd) == [k \in 1..(segments + 1) |-> z_top * segments - sd * (k - 1)]

\* z_helix -= stepdown, capped at z_bottom (993-997)
CylStepDown(zs, sd) ==
    [k \in 1..Len(zs) |->
        IF zs[k] - sd * segments < z_bottom * segments
        THEN z_bottom * segments ELSE zs[k] - sd * segments]

CylZ(zs, k) == Some(to_str_q(zs[k], segments))

\* (the helix loop started one point late)
CylHelixLate(zs) == [k \in 1..segments |-> CylPoint("G1", r_helix, k, CylZ(zs, k + 1))]

\* the helix points of one pass: idx 0 .. segments-1 (963-968)
CylHelix(zs) == [k \in 1..segments |-> CylPoint("G1", r_helix, k - 1, CylZ(zs, k))]

\* the finishing moves of one pass, emitted when stepover > 0 (970-991)
CylFinish(zs, i_pass) ==
    IF stepover > 0
    THEN <<CylPoint("G1", r_helix, segments, CylZ(zs, segments + 1)),
           Blank, Line(";", None, None, None, None, "Finishing Rough, Pass", <<i_pass + 1>>)>>
         \o [k \in 1..(segments + 1) |-> CylPoint("G1", r_helix, k - 1, None)]
         \o <<Blank, Line(";", None, None, None, None, "Finishing Cut, Pass", <<i_pass + 1>>)>>
         \o [k \in 1..(segments + 1) |-> CylPoint("G1", r_finish, k - 1, None)]
    ELSE <<>>

\* the loop over the passes and the very last point (959-1002); z is the
\* value of the array z_helix during pass i_pass
RECURSIVE CylPasses(_, _, _, _)
CylPasses(i_pass, n_passes, zs, sd) ==
    LET Emit(z) ==
            IF i_pass < n_passes
            THEN <<Blank, Line(";", None, None, None, None, "Pass", <<i_pass + 1>>)>>
                 \o CylHelix(z) \o CylFinish(z, i_pass)
                 \o CylPasses(i_pass + 1, n_passes, CylStepDown(z, sd), sd)
            ELSE <<CylPoint("G1", r_helix, segments, CylZ(z, segments + 1))>>
    IN  CHOOSE out \in {Emit(z) : z \in {zs}} : TRUE

CylinderLines(sd, zr) ==
    LET n_passes == CylNPasses(sd)
        z_retract_abs == to_str(z_top + zr)
    IN  << Comment("-----------------------"),
           Comment(IF bore THEN "Bore Operation" ELSE "CyinderOperation"),
           Comment("Code Generated by"),
           Line(";", Some(to_str(x)), Some(to_str(y)), None, None, "center", None),
           Line(";", None, None, None, None, "radius", <<to_str(radius)>>),
           Line(";", None, None, Some(to_str(z_top)), None, "z top", None),
           Line(";", None, None, Some(to_str(z_bottom)), None, "z bottom", None),
           Line(";", None, None, Some(to_str(sd)), None, "DOC", None),
           Line(";", None, None, None, None, "passes", <<n_passes>>),
           Line(";", None, None, None, None, "tool dia", <<to_str(tool_dia)>>) >>
        \o (IF stepover > 0
            THEN <<Line(";", None, None, None, None, "stepover", <<to_str(stepover)>>)>>
            ELSE <<>>)
        \o <<Blank>>
        \o SetupBlock
        \o << Comment("Position for start"),
              Line("G0", None, None, Some(z_retract_abs), Some(DefaultSpeedPosition), "", None),
              CylPoint("G0", r_helix, 0, None),
              Blank >>
        \o SpindleBlock
        \o << Comment("Move to start position"),
              Line("G1", None, None, Some(to_str(z_top)), Some(DefaultSpeedFeed), "", None) >>
        \o CylPasses(0, n_passes, z_helix0(sd), sd)
        \o << Blank, Comment("Retract"),
              Line("G0", None, None, Some(z_retract_abs), Some(DefaultSpeedPosition), "", None),
              Line("G0", Some(0), Some(0), None, None, "", None) >>

(***************************************************************************)
(* ToolPathFace.GCode  (toolpaths.py 1056-1168)                            *)
(***************************************************************************)
\* z_retract_abs (126-128)
z_retract_abs(zr) == z_top + zr

\* pre-rendered positions (1068-1070): x0, y0 = -0.75 * tool_dia and
\* y1 = y + 0.75 * tool_dia
FaceX0 == to_str(Neg(tool_rad) + stepover)
FaceY0 == to_str_q(Neg(3 * tool_dia), 4)
FaceY1 == to_str_q(4 * y + 3 * tool_dia, 4)

\* header, setup, pre-position and spindle start (1075-1109)
FaceHeader(sd, zr) ==
    << Blank,
       Comment("-----------------------"),
       Comment("Facing operation"),
       Comment("Code Generated by"),
       Comment("Cuts performed bi-directionally in Y"),
       Comment("Stepover performed in X."),
       Line(";", Some(to_str(x)), None, None, None, "Facing X Distance", None),
       Line(";", None, Some(to_str(y)), None, None, "Facing Y Distance", None),
       Line(";", None, None, Some(to_str(z_top)), None, "Z_top", None),
       Line(";", None, None, Some(to_str(z_bottom)), None, "Z_bottom", None),
       Line(";", None, None, None, None, "Stepover", <<to_str(stepover)>>),
       Line(";", None, None, None, None, "Stepdown", <<to_str(sd)>>),
       Line(";", None, None, None, None, "Tool Dia", <<to_str(tool_dia)>>),
       Blank,
       Line(";", None, None, None, Some(DefaultSpeedFeed), "Feed Speed", None),
       Line(";", None, None, None, Some(DefaultSpeedPosition), "Positioning Speed", None),
       Blank,
       Comment("---- Setup ----") >>
    \o SetupBlock
    \o << Comment("---- Pre-Position ----"),
          Line("G0", None, None, Some(to_str(z_retract_abs(zr))), Some(DefaultSpeedPosition),
               "", None),
          Line("G0", Some(FaceX0), Some(FaceY0), None, None, "", None),
          Blank >>
    \o SpindleBlock

\* the loop on cuts of one level (1129-1142): xc is the value of x at the
\* loop test
RECURSIVE FaceStrokes(_)
FaceStrokes(xc) ==
    IF xc <= x
    THEN LET xr == xc + stepover
             xn == xr + stepover
         IN  <<Line("G1", None, Some(FaceY1), None, Some(DefaultSpeedFeed), "cut fwd", None)>>
             \o (IF xr <= x + stepover
                 THEN <<Line("G0", Some(to_str(xr)), None, None, Some(DefaultSpeedPosition),
                             "stepover", None),
                        Line("G1", None, Some(FaceY0), None, Some(DefaultSpeedFeed),
                             "cut rev", None)>>
                 ELSE <<>>)
             \o (IF xn <= x
                 THEN <<Line("G0", Some(to_str(xn)), None, None, Some(DefaultSpeedPosition),
                             "stepover", None)>>
                 ELSE <<>>)
             \o FaceStrokes(xn)
    ELSE <<>>

\* the inputs (z_top, z_bottom, stepdown) for which z, after the exact number
\* of subtractions z -= stepdown in double arithmetic (1123), is still above
\* z_bottom: ten times 0.3 taken from 0 give -2.9999999999999996 > -3
FaceResidue == { <<0, -30000, 3000>> }

\* the loop over the levels (1116-1160): z is the level reached so far, above
\* tells that the double z is above z_bottom where its exact value is not
RECURSIVE FaceLevels(_, _, _, _, _)
FaceLevels(z, cur_level, cnt_levels, sd, zr) ==
    IF z > z_bottom \/ (z = z_bottom /\ cur_level = cnt_levels
                                     /\ <<z_top, z_bottom, sd>> \in FaceResidue)
    THEN LET zn == IF z - sd < z_bottom THEN z_bottom ELSE z - sd
             above == \/ zn > z_bottom
                      \/ (z - sd = z_bottom /\ cur_level + 1 = cnt_levels
                                            /\ <<z_top, z_bottom, sd>> \in FaceResidue)
         IN  << Line(";", None, None, None, None, "---- Facing Pass",
                     <<cur_level + 1, cnt_levels>>),
                Comment("Cut"),
                Line("G0", None, None, Some(to_str(zn)), Some(DefaultSpeedPosition), "", None) >>
             \o FaceStrokes(Neg(tool_rad) + stepover)
             \o <<Blank>>
             \o (IF above
                 THEN << Comment("Retrace"),
                         Line("G1", None, None, Some(to_str(z_retract_abs(zr))),
                              Some(DefaultSpeedPosition), "", None),
                         Line("G1", Some(FaceX0), Some(FaceY0), None, None, "", None),
                         Blank >>
                 ELSE <<>>)
             \o FaceLevels(zn, cur_level + 1, cnt_levels, sd, zr)
    ELSE <<>>

\* return to the original position (1153-1161)
FaceCleanup(zr) ==
    << Comment("Cleanup"),
       Line("M5", None, None, None, None, "Stop Spindle", None),
       Line("G0", None, None, Some(to_str(z_retract_abs(zr))), Some(DefaultSpeedPosition),
            "Retract", None),
       Line("G0", Some(0), Some(0), None, None, "Return Home", None),
       Line("M2", None, None, None, None, "Job end", None),
       Blank >>

\* the loop on cuts never ends: x does not advance and the test x <= self.x
\* stays true (1130-1142)
FaceLoopsForever == stepover = 0 /\ Neg(tool_rad) <= x

FaceLines(sd, zr) ==
    FaceHeader(sd, zr)
    \o FaceLevels(z_top, 0, Ceil(z_top - z_bottom, sd), sd, zr)
    \o FaceCleanup(zr)

(***************************************************************************)
(* ToolPathSlotUniDi.GCode  (toolpaths.py 401-493)                         *)
(***************************************************************************)
\* header, setup and spindle start (422-448)
SlotHeader(sd) ==
    << Comment("-----------------------"),
       Comment("Unidirectional slot cut"),
       Comment("Code Generated by"),
       Line(";", Some(to_str(x)), None, None, None, "X Distance", None),
       Line(";", None, Some(to_str(y)), None, None, "Y Distance", None),
       Line(";", None, None, Some(to_str(depth)), None, "Depth", None),
       Line(";", None, None, None, None, "Stepdown", <<to_str(sd)>>),
       Blank,
       Line(";", None, None, None, Some(DefaultSpeedFeed), "Feed Speed", None),
       Line(";", None, None, None, Some(DefaultSpeedPosition), "Positioning Speed", None),
       Blank,
       Comment("---- Setup ----"),
       Line("G21", None, None, None, None, "Units: mm", None),
       Line("G94", None, None, None, None, "Speed in units per minute", None),
       Line("G17", None, None, None, None, "XY Plane", None),
       Line("G54", None, None, None, None, "Coordinate system 1", None),
       Line("G91", None, None, None, None, "REL positioning mode", None),
       Blank >>
    \o SpindleBlock

\* the inputs (depth, stepdown) for which z, after the exact number of
\* subtractions z -= stepdown in double arithmetic (458), is still above 0:
\* five times 0.2 taken from 1.0 leave 5.551115123125783e-17
SlotResidue == { <<10000, 2000>> }

\* the loop over the passes (450-483): z is the depth left, sdl the local
\* stepdown, which the last pass shortens; above tells that the double z is
\* above 0 where its exact value is not
RECURSIVE SlotPasses(_, _, _, _, _)
SlotPasses(z, sdl, cur_pass, cnt_pass, zr) ==
    IF z > 0 \/ (z = 0 /\ cur_pass = cnt_pass /\ <<depth, sdl>> \in SlotResidue)
    THEN LET short == z - sdl < 0
             sdn == IF short THEN sdl + (z - sdl) ELSE sdl
             zn == IF short THEN 0 ELSE z - sdl
             above == \/ zn > 0
                      \/ (z - sdl = 0 /\ cur_pass + 1 = cnt_pass
                                      /\ <<depth, sdl>> \in SlotResidue)
         IN  << Line(";", None, None, None, None, "---- Pass", <<cur_pass + 1, cnt_pass>>),
                Comment("Cut"),
                Line("G0", None, None, Some(to_str(Neg(sdn))), None, "", None),
                Line("G1", Some(to_str(x)), Some(to_str(y)), None, Some(DefaultSpeedFeed),
                     "", None),
                Blank >>
             \o (IF above
                 THEN << Comment("Retrace"),
                         Line("G1", None, None, Some(to_str(z_retract_abs(zr))),
                              Some(DefaultSpeedPosition), "", None),
                         Line("G1", Some(to_str(Neg(x))), Some(to_str(Neg(y))), None, None,
                              "", None),
                         Line("G1", None, None, Some(to_str(Neg(z_retract_abs(zr)))), None,
                              "", None),
                         Blank >>
                 ELSE <<>>)
             \o SlotPasses(zn, sdn, cur_pass + 1, cnt_pass, zr)
    ELSE <<>>

\* return to the original position (485-493)
SlotCleanup(zr) ==
    << Comment("Cleanup"),
       Line("M5", None, None, None, None, "Stop Spindle", None),
       Line("G0", None, None, Some(to_str(z_retract_abs(zr))), Some(DefaultSpeedPosition),
            "Return Home", None),
       Line("G0", Some(to_str(Neg(x))), Some(to_str(Neg(y))), None, None, "", None),
       Line("M2", None, None, None, None, "Job end", None),
       Blank >>

\* math.ceil(a / b) for b > 0 and any a
CeilDiv(a, b) == IF a >= 0 THEN Ceil(a, b) ELSE Neg(Abs(a) \div b)

SlotLines(sd, zr) ==
    SlotHeader(sd)
    \o SlotPasses(depth, sd, 0, CeilDiv(depth, sd), zr)
    \o SlotCleanup(zr)

(***************************************************************************)
(* The calls ParamCheck() and GCode()                                      *)
(***************************************************************************)
CallFrame(name) ==
    /\ raised # "NoReturn"
    /\ lastcall' = name
    /\ pre' = Fields
    /\ UNCHANGED <<kind, z_top, z_bottom, stepover, tool_dia, tool_angle, operation,
                   x, y, width, height, radius, bore, segments, depth, ncalls, guvars,
                   opvars, sfvars>>

\* ParamCheck() called directly
ParamCheckCall ==
    /\ CallFrame("ParamCheck")
    /\ raised' = ParamCheck.err
    /\ z_retract_dist' = ParamCheck.z_retract_dist
    /\ stepdown' = ParamCheck.stepdown
    /\ gcode' = gcode

\* the lines that the generator of the object's class emits
GeneratedLines(sd, zr) ==
    IF kind = "Rectangle" THEN RectangleLines(sd, zr) ELSE CylinderLines(sd, zr)

\* (a GCode() that keeps the text of the earlier call and appends to it)
GenerateAppending ==
    LET pc == ParamCheck
    IN  /\ CallFrame("GCode")
        /\ z_retract_dist' = pc.z_retract_dist
        /\ stepdown' = pc.stepdown
        /\ IF pc.err # ""
           THEN raised' = pc.err /\ gcode' = gcode
           ELSE IF pc.stepdown = 0
           THEN raised' = "ZeroDivisionError" /\ gcode' = <<>>
           ELSE raised' = "" /\ gcode' = gcode \o GeneratedLines(pc.stepdown, pc.z_retract_dist)

\* GCode() of a generator: ParamCheck, then the buffer reset, then the pass
\* count (a division by the stepdown), then the emission.
Generate ==
    LET pc == ParamCheck
    IN  /\ CallFrame("GCode")
        /\ z_retract_dist' = pc.z_retract_dist
        /\ stepdown' = pc.stepdown
        /\ IF pc.err # ""
           THEN raised' = pc.err /\ gcode' = gcode
           ELSE IF pc.stepdown = 0
           THEN raised' = "ZeroDivisionError" /\ gcode' = <<>>
           ELSE raised' = "" /\ gcode' = GeneratedLines(pc.stepdown, pc.z_retract_dist)

RectangleGCode == kind = "Rectangle" /\ Generate

CylinderGCode == kind = "Cylinder" /\ Generate

\* ToolPath.GCode of the base class (322-328): ParamCheck, return _gcode
ToolPathGCode ==
    /\ kind = "ToolPath"
    /\ CallFrame("GCode")
    /\ raised' = ParamCheck.err
    /\ z_retract_dist' = ParamCheck.z_retract_dist
    /\ stepdown' = ParamCheck.stepdown
    /\ gcode' = gcode

\* GCode() of the generators that print their header before they divide by
\* the stepdown (Face 1111, SlotUniDi 445): header is what the buffer holds
\* when the division raises
GenerateAfterHeader(header, lines, forever) ==
    LET pc == ParamCheck
    IN  /\ CallFrame("GCode")
        /\ z_retract_dist' = pc.z_retract_dist
        /\ stepdown' = pc.stepdown
        /\ IF pc.err # ""
           THEN raised' = pc.err /\ gcode' = gcode
           ELSE IF pc.stepdown = 0
           THEN raised' = "ZeroDivisionError" /\ gcode' = header
           ELSE IF forever
           THEN raised' = "NoReturn" /\ gcode' = header
           ELSE raised' = "" /\ gcode' = lines

FaceGCode ==
    /\ kind = "Face"
    /\ GenerateAfterHeader(FaceHeader(ParamCheck.stepdown, ParamCheck.z_retract_dist),
                           FaceLines(ParamCheck.stepdown, ParamCheck.z_retract_dist),
                           FaceLoopsForever)

SlotGCode ==
    /\ kind = "SlotUniDi"
    /\ GenerateAfterHeader(SlotHeader(ParamCheck.stepdown),
                           SlotLines(ParamCheck.stepdown, ParamCheck.z_retract_dist),
                           FALSE)

Setters ==
    \/ set_z_top
    \/ set_z_bottom
    \/ set_z_retract_dist
    \/ set_stepdown
    \/ set_stepover
    \/ set_tool_dia
    \/ set_tool_angle
    \/ set_operation

(***************************************************************************)
(* Construction                                                            *)
(***************************************************************************)
\* constructor arguments (x, y, width, height) of the rectangles
RectangleArgs == { <<0, 0, 400000, 55000>>, <<10000, -5000, 100000, 100000>> }
\* constructor arguments (radius, bore) of the cylinders
CylinderArgs == {100000, 31750} \X BOOLEAN

\* FusionSpeedFix.__init__ with its default arguments (speed_fix.py 25-29)
DefaultRetractHeight == 50000      \* 5 mm
DefaultPositioningSpeed == 1000

\* no FusionSpeedFix object in use: one as constructed
SfIdle ==
    /\ sf_retract_height = DefaultRetractHeight
    /\ sf_positioning_speed = DefaultPositioningSpeed
    /\ sf_z_state = "Unknown"
    /\ sf_hist = <<>>

\* no Operation object
OpIdle ==
    /\ op_kind = "None"
    /\ op_part = <<>> /\ op_tool = <<>> /\ op_stock = <<>>
    /\ op_doc = 0 /\ op_woc = 0
    /\ op_stock_to_leave_radial = 0 /\ op_stock_to_leave_axial = 0
    /\ op_diameter_min = None /\ op_diameter_max = None
    /\ op_bores = <<>> /\ op_ops = <<>> /\ op_locations = None /\ op_file = None
    /\ op_raised = "" /\ op_hist = <<>>

GuIdle ==
    /\ gu_gcode = <<>>
    /\ gu_filename = None
    /\ gu_raised = ""
    /\ gu_hist = <<>>
    /\ gu_ret = <<>>

\* class defaults of ToolPath (32-51)
ToolPathDefaults ==
    /\ z_top = 0
    /\ z_bottom = DefaultZBottom
    /\ z_retract_dist = DefaultZRetractDist
    /\ stepdown = DefaultStepdown
    /\ stepover = 0
    /\ tool_dia = DefaultToolDia
    /\ tool_angle = 0
    /\ operation = "Pocket"
    /\ gcode = <<>>
    /\ raised = ""
    /\ lastcall = "__init__"
    /\ pre = Fields
    /\ ncalls = 0

InitRectangle ==
    /\ ToolPathDefaults
    /\ GuIdle
    /\ OpIdle
    /\ SfIdle
    /\ \/ /\ kind = "Rectangle"
          /\ \E a \in RectangleArgs :
                x = a[1] /\ y = a[2] /\ width = Abs(a[3]) /\ height = Abs(a[4])
       \/ /\ kind = "ToolPath"
          /\ x = 0 /\ y = 0 /\ width = 0 /\ height = 0
    /\ radius = 0 /\ bore = FALSE /\ segments = 0 /\ depth = 0

InitCylinder ==
    /\ ToolPathDefaults
    /\ GuIdle
    /\ OpIdle
    /\ SfIdle
    /\ kind = "Cylinder"
    /\ x = 0 /\ y = 0 /\ width = 0 /\ height = 0
    /\ \E a \in CylinderArgs : radius = Abs(a[1]) /\ bore = a[2]
    /\ segments = DefaultSegments /\ depth = 0

\* constructor arguments (x, y) of the facing paths
FaceArgs == { <<50000, 30000>>, <<20000, 100000>> }
\* constructor arguments (x, y, depth) of the slots
SlotArgs == { <<0, 500000, 50000>>, <<100000, -50000, 10000>> }

InitFace ==
    /\ ToolPathDefaults
    /\ GuIdle
    /\ OpIdle
    /\ SfIdle
    /\ kind = "Face"
    /\ \E a \in FaceArgs : x = a[1] /\ y = a[2]
    /\ width = 0 /\ height = 0
    /\ radius = 0 /\ bore = FALSE /\ segments = 0 /\ depth = 0

InitSlot ==
    /\ ToolPathDefaults
    /\ GuIdle
    /\ OpIdle
    /\ SfIdle
    /\ kind = "SlotUniDi"
    /\ \E a \in SlotArgs : x = a[1] /\ y = a[2] /\ depth = a[3]
    /\ width = 0 /\ height = 0
    /\ radius = 0 /\ bore = FALSE /\ segments = 0

\* any of the generators
InitGenerators == InitRectangle \/ InitCylinder \/ InitFace \/ InitSlot

NextGenerators ==
    \/ Setters
    \/ ParamCheckCall
    \/ RectangleGCode
    \/ CylinderGCode
    \/ FaceGCode
    \/ SlotGCode
    \/ ToolPathGCode

SpecGenerators == InitGenerators /\ [][NextGenerators]_vars

NextRectangle ==
    \/ Setters
    \/ ParamCheckCall
    \/ RectangleGCode
    \/ ToolPathGCode

NextCylinder ==
    \/ Setters
    \/ ParamCheckCall
    \/ CylinderGCode

SpecRectangle == InitRectangle /\ [][NextRectangle]_vars
SpecCylinder == InitCylinder /\ [][NextCylinder]_vars

(***************************************************************************)
(* GcodeUtils  (gcode_utils.py 186-801)                                    *)
(*                                                                         *)
(* The G-code text is a sequence of lines and a line a sequence of words.  *)
(* A word [c, v, ok] is a letter c followed by a text that the number      *)
(* pattern _re_num = "([+-]?[0-9.]+)" matches: ok tells whether float()    *)
(* accepts that text, v is its value in units (ok) or the index of the     *)
(* text in MalformedTexts (~ok).  A word with c = ";" is text that no      *)
(* pattern matches (v names the text).                                     *)
(***************************************************************************)
MalformedTexts == <<"1.2.3", ".", "-.">>

Word(c, v) == [c |-> c, v |-> v, ok |-> TRUE]
Malformed(c, t) == [c |-> c, v |-> t, ok |-> FALSE]
Text(t) == [c |-> ";", v |-> t, ok |-> TRUE]

RECURSIVE Flatten(_)
Flatten(g) ==
    IF g = <<>> THEN <<>>
    ELSE IF Len(g) = 1 THEN g[1]
    ELSE Flatten(SubSeq(g, 1, Len(g) \div 2)) \o Flatten(SubSeq(g, Len(g) \div 2 + 1, Len(g)))

\* the matches of c + _re_num in the text, in reading order (re.finditer)
Matches(g, c) ==
    LET IsC(w) == w.c = c
    IN  SelectSeq(Flatten(g), IsC)

\* float(match.group(1)) raises ValueError for some match of c + _re_num
SubRaises(g, c) ==
    \E i \in 1..Len(g) : \E j \in 1..Len(g[i]) : g[i][j].c = c /\ ~g[i][j].ok

\* (a mirror that folds onto the positive side)
mirror_abs(v) == <<Abs(v), 1>>

\* mirror_x, mirror_i, mirror_y, mirror_j (328-336, 351-359): the value * -1,
\* as a pair <<numerator, denominator>>
mirror(v) == <<Neg(v), 1>>

\* np.isclose(value, oldvalue): |a - b| <= 1e-8 + 1e-5 * |b|; in units, where
\* |a - b| is an integer, |a - b| <= floor((10 + |b|) / 100000)
IsClose(a, b) == Abs(a - b) <= (10 + Abs(b)) \div 100000

\* the replacement functions handed to re.sub, applied to a value v; the
\* result is a pair <<numerator, denominator>>:
\*   <<"offset", d, q>>            offset_x/y/z of Translate by d/q (299-312)
\*   <<"mirror">>                  the mirror functions
\*   <<"scale", n, m>>             scale_x/y/z of Scale by n/m (496-506)
\*   <<"check_replace", old, new>> check_replace of ReplaceValue (717-722)
Repl(op, v) ==
    IF op[1] = "offset" THEN <<op[3] * v + op[2], op[3]>>
    ELSE IF op[1] = "mirror" THEN mirror(v)
    ELSE IF op[1] = "scale" THEN <<v * op[2], op[3]>>
    ELSE IF IsClose(v, op[2]) THEN <<op[3], 1>> ELSE <<v, 1>>

\* re.sub(c + _re_num, repl, text) where repl prints _to_str of Repl(op, value)
Sub(g, c, op) ==
    [i \in 1..Len(g) |->
        [j \in 1..Len(g[i]) |->
            IF g[i][j].c = c
            THEN Word(c, to_str_q(Repl(op, g[i][j].v)[1], Repl(op, g[i][j].v)[2]))
            ELSE g[i][j]]]

\* one statement self._gcode = re.sub(...): st is [g, err], the text so far
\* and the exception raised so far; a raise leaves the text as it was
Pass(st, c, op) ==
    IF st.err # "" THEN st
    ELSE IF SubRaises(st.g, c) THEN [g |-> st.g, err |-> "ValueError"]
    ELSE [g |-> Sub(st.g, c, op), err |-> ""]

Started(g) == [g |-> g, err |-> ""]

\* Translate by d/q (276-316): the X, the Y and then the Z substitution
TranslateBy(g, d, q) ==
    Pass(Pass(Pass(Started(g), "X", <<"offset", d[1], q>>),
              "Y", <<"offset", d[2], q>>),
         "Z", <<"offset", d[3], q>>)

\* MirrorY (318-339) negates X and I, MirrorX (341-362) negates Y and J
MirrorYOf(g) == Pass(Pass(Started(g), "X", <<"mirror">>), "I", <<"mirror">>)
\* (a MirrorX that leaves the arc offset as it is)
MirrorXOfAxisOnly(g) == Pass(Started(g), "Y", <<"mirror">>)

MirrorXOf(g) == Pass(Pass(Started(g), "Y", <<"mirror">>), "J", <<"mirror">>)

\* one loop of Extents (381-386): lo and hi start at +inf and -inf (None);
\* a value that lowers the minimum is not compared with the maximum
RECURSIVE ExtentsScan(_, _, _)
ExtentsScan(ws, lo, hi) ==
    IF ws = <<>> THEN <<lo, hi>>
    ELSE LET val == Head(ws).v
         IN  IF lo = None \/ val < lo[1] THEN ExtentsScan(Tail(ws), Some(val), hi)
             ELSE IF hi = None \/ val > hi[1] THEN ExtentsScan(Tail(ws), lo, Some(val))
             ELSE ExtentsScan(Tail(ws), lo, hi)

\* ext[np.isinf(ext)] = 0 (406)
InfToZero(o) == IF o = None THEN 0 ELSE o[1]

\* Extents (364-408): [err, ext] with ext = <<x_min, y_min, z_min, x_max, y_max, z_max>>
ExtentsOf(g) ==
    IF SubRaises(g, "X") \/ SubRaises(g, "Y") \/ SubRaises(g, "Z")
    THEN [err |-> "ValueError", ext |-> <<>>]
    ELSE LET ex == ExtentsScan(Matches(g, "X"), None, None)
             ey == ExtentsScan(Matches(g, "Y"), None, None)
             ez == ExtentsScan(Matches(g, "Z"), None, None)
         IN  [err |-> "",
              ext |-> <<InfToZero(ex[1]), InfToZero(ey[1]), InfToZero(ez[1]),
                        InfToZero(ex[2]), InfToZero(ey[2]), InfToZero(ez[2])>>]

\* Center (410-430), twice the centre so that it stays an integer
Center2(ext) == <<ext[1] + ext[4], ext[2] + ext[5], ext[3] + ext[6]>>

\* Scale by n/m (477-516): centre, three substitutions, centre again, and
\* Translate by the difference of the centres
ScaleBy(g, n, m) ==
    LET before == ExtentsOf(g)
        scale == <<"scale", n, m>>
        scaled == Pass(Pass(Pass(Started(g), "X", scale), "Y", scale), "Z", scale)
        after == ExtentsOf(scaled.g)
        center_pre == Center2(before.ext)
        center_post == Center2(after.ext)
        center_delta == <<center_pre[1] - center_post[1], center_pre[2] - center_post[2],
                          center_pre[3] - center_post[3]>>
    IN  IF before.err # "" THEN [g |-> g, err |-> before.err]
        ELSE IF scaled.err # "" THEN scaled
        ELSE IF after.err # "" THEN [g |-> scaled.g, err |-> after.err]
        ELSE TranslateBy(scaled.g, center_delta, 2)

\* ReplaceValue (692-725)
\* (a ReplaceValue that takes the new value for the old one)
ReplaceValueOfSwapped(g, command, oldvalue, newvalue) ==
    Pass(Started(g), command, <<"check_replace", newvalue, oldvalue>>)

ReplaceValueOf(g, command, oldvalue, newvalue) ==
    Pass(Started(g), command, <<"check_replace", oldvalue, newvalue>>)

\* Rotate (727-801).  The texts that no number pattern matches, by index:
\* '; comment', '; cut', '(go)', '(feed)'
CommentTexts == <<"; comment", "; cut", "(go)", "(feed)">>

\* cos and sin of the angles of RotateArgs, multiples of 90 degrees
RotCos(angle) == IF angle % 360 = 0 THEN 1 ELSE IF angle % 360 = 180 THEN -1 ELSE 0
RotSin(angle) == IF angle % 360 = 90 THEN 1 ELSE IF angle % 360 = 270 THEN -1 ELSE 0

\* the first digit of a command number printed without leading zeros
RECURSIVE LeadDigit(_)
LeadDigit(n) == IF n < 10 THEN n ELSE LeadDigit(n \div 10)

\* gline_re (757-760): the line starts with G or M and a digit 0 or 1 ...
GlineStarts(line) ==
    /\ Len(line) >= 1
    /\ line[1].c \in {"G", "M"}
    /\ line[1].ok
    /\ line[1].v >= 0
    /\ LeadDigit(line[1].v \div 10000) \in {0, 1}

\* ... the lead [^XYZE]* (case ignored) ends before the first of the letters
\* X, Y, Z, E, which a word or a comment text may hold
StopsLead(w) ==
    \/ w.c \in {"X", "Y", "Z", "E"}
    \/ w.c = ";" /\ w.v \in {1, 4}

\* the position of the word that ends the lead, Len(line) + 1 if none does
LeadEnd(line) ==
    LET stops == {k \in 2..Len(line) : StopsLead(line[k])}
    IN  IF stops = {} THEN Len(line) + 1
        ELSE CHOOSE k \in stops : \A j \in stops : k <= j

\* one line of the loop (771-800): the optional groups X, Y, Z, F are taken in
\* this order right after the lead; the new line is the lead, the rotated X
\* and Y, and the Z and F texts as they were: what follows the match is not
\* copied.  cx2, cy2 are twice the centre.
RotateLine(line, angle, cx2, cy2) ==
    LET p == LeadEnd(line)
        n == Len(line)
        hasX == p <= n /\ line[p].c = "X"
        pY == IF hasX THEN p + 1 ELSE p
        hasY == pY <= n /\ line[pY].c = "Y"
        pZ == IF hasY THEN pY + 1 ELSE pY
        hasZ == pZ <= n /\ line[pZ].c = "Z"
        pF == IF hasZ THEN pZ + 1 ELSE pZ
        hasF == pF <= n /\ line[pF].c = "F"
        x0 == (IF hasX THEN 2 * line[p].v ELSE 0) - cx2
        y0 == (IF hasY THEN 2 * line[pY].v ELSE 0) - cy2
        xr == x0 * RotCos(angle) - y0 * RotSin(angle) + cx2
        yr == x0 * RotSin(angle) + y0 * RotCos(angle) + cy2
    IN  IF ~GlineStarts(line) \/ (~hasX /\ ~hasY) THEN line
        ELSE SubSeq(line, 1, p - 1)
             \o (IF hasX THEN <<Word("X", to_str_q(xr, 2))>> ELSE <<>>)
             \o (IF hasY THEN <<Word("Y", to_str_q(yr, 2))>> ELSE <<>>)
             \o (IF hasZ THEN <<line[pZ]>> ELSE <<>>)
             \o (IF hasF THEN <<line[pF]>> ELSE <<>>)

\* Rotate by angle about (x_center, y_center), each the centre of the
\* extents when None: Center() raises where Extents() does, which covers
\* every X or Y text that float() (776-777) rejects
RotateOf(g, angle, x_center, y_center) ==
    LET ext == ExtentsOf(g)
        center == Center2(ext.ext)
        cx2 == IF x_center = None THEN center[1] ELSE 2 * x_center[1]
        cy2 == IF y_center = None THEN center[2] ELSE 2 * y_center[1]
    IN  IF ext.err # "" THEN [g |-> g, err |-> ext.err]
        ELSE [g |-> [i \in 1..Len(g) |-> RotateLine(g[i], angle, cx2, cy2)],
              err |-> ""]

\* ZLevels (554-569): [err, z] with the Z values in reading order
ZLevelsOf(g) ==
    IF SubRaises(g, "Z") THEN [err |-> "ValueError", z |-> <<>>]
    ELSE [err |-> "",
          z |-> CHOOSE zs \in {[k \in 1..Len(ms) |-> ms[k].v] : ms \in {Matches(g, "Z")}} : TRUE]

(***************************************************************************)
(* ZBlock, zblocks and zmultipass  (gcode_utils.py 26-183, 571-690)        *)
(***************************************************************************)
\* format(value, "0.3f") read back as a number of units
to_str3(v) == 10 * RoundHalfEven(v, 10)

HasMatch(line, c) == \E j \in 1..Len(line) : line[j].c = c
\* re.search(c + _re_num, line): the first match
FirstMatch(line, c) ==
    line[CHOOSE j \in 1..Len(line) : line[j].c = c /\ \A k \in 1..(j - 1) : line[k].c # c]

\* ZBlock.__init__ (27-51): the blank lines are dropped, the last line is
\* indexed (IndexError for no line), z is the first Z of the first line
ZBlockNew(lines, xs, ys, zs) ==
    LET NonBlank(l) == l # <<>>
        kept == SelectSeq(lines, NonBlank)
        none == [err |-> "", lines |-> <<>>, z |-> None, x_start |-> xs, y_start |-> ys,
                 z_start |-> zs]
    IN  IF kept = <<>> THEN [none EXCEPT !.err = "IndexError"]
        ELSE IF ~HasMatch(kept[1], "Z") THEN [none EXCEPT !.lines = kept]
        ELSE IF ~FirstMatch(kept[1], "Z").ok THEN [none EXCEPT !.err = "ValueError"]
        ELSE [none EXCEPT !.lines = kept, !.z = Some(FirstMatch(kept[1], "Z").v)]

\* zblocks, lines 606-614: the position after the line, for one axis
Track(st, line, c) ==
    IF st.err # "" \/ ~HasMatch(line, c) THEN st
    ELSE IF ~FirstMatch(line, c).ok THEN [st EXCEPT !.err = "ValueError"]
    ELSE IF c = "X" THEN [st EXCEPT !.x = Some(FirstMatch(line, c).v)]
    ELSE IF c = "Y" THEN [st EXCEPT !.y = Some(FirstMatch(line, c).v)]
    ELSE [st EXCEPT !.z = Some(FirstMatch(line, c).v)]

\* zblocks, one iteration of the loop over the lines (595-617)
ZBlocksStep(st, line) ==
    LET b == ZBlockNew(st.block, st.x_prev, st.y_prev, st.z_prev)
        closed == IF ~HasMatch(line, "Z") THEN st
                  ELSE IF b.err # "" THEN [st EXCEPT !.err = b.err]
                  ELSE [st EXCEPT !.blocks = Append(@, b), !.block = <<>>,
                                  !.x_prev = st.x, !.y_prev = st.y, !.z_prev = st.z]
        tracked == Track(Track(Track(closed, line, "X"), line, "Y"), line, "Z")
    IN  IF tracked.err # "" THEN tracked
        ELSE [tracked EXCEPT !.block = Append(@, line)]

\* the loop from line k on, the lines up to the middle first
RECURSIVE ZBlocksScan(_, _, _)
ZBlocksScan(lines, k, st) ==
    LET mid == (k + Len(lines)) \div 2
    IN  IF k > Len(lines) \/ st.err # "" THEN st
        ELSE IF k = Len(lines) THEN ZBlocksStep(st, lines[k])
        ELSE CHOOSE r \in {ZBlocksScan(lines, mid + 1, s) :
                              s \in {ZBlocksScan(SubSeq(lines, 1, mid), k, st)}} : TRUE

\* zblocks (571-619): [err, blocks]; the block that is open when the lines
\* end is not returned
zblocks(g) ==
    LET st == ZBlocksScan(g, 1, [err |-> "", blocks |-> <<>>, block |-> <<>>,
                                 x |-> None, y |-> None, z |-> None,
                                 x_prev |-> None, y_prev |-> None, z_prev |-> None])
    IN  [err |-> st.err, blocks |-> st.blocks]

\* calls (z_top, stepdown, z_min) of the model for which the double-precision
\* quotient (stop - start) / step of np.arange lies above its exact value, an
\* integer, so that the array has one more element, equal to stop:
\* (-0.4 - (0.0 - 0.1)) / -0.1 = 3.0000000000000004
ArangeExcess == { <<0, 1000, -4000>> }

\* np.arange(z_top - stepdown, z_min, -stepdown) followed by z_min (648-649)
ZHeights(zt, sd, z_min) ==
    LET start == zt - sd
        exact == IF start > z_min THEN Ceil(start - z_min, sd) ELSE 0
        n == IF <<zt, sd, z_min>> \in ArangeExcess THEN exact + 1 ELSE exact
    IN  [k \in 1..n |-> start - (k - 1) * sd] \o <<z_min>>

\* the block with its Z set: ZBlock.z setter (66-73)
SetZ(lines, z) ==
    [i \in 1..Len(lines) |->
        IF i = 1
        THEN [j \in 1..Len(lines[1]) |->
                 IF lines[1][j].c = "Z" THEN Word("Z", z) ELSE lines[1][j]]
        ELSE lines[i]]

\* the text of pass i (1..n) of a minimum-Z block (666-684)
PassText(b, op_num, i, hs) ==
    << <<>>,
       <<Word("(Operation", op_num)>>,
       <<Word("(Pass", i), Word("/", Len(hs)), Word("z=", hs[i])>> >>
    \o (IF i > 1
        THEN << <<Word("G", 0), Word("X", to_str3(b.x_start[1])),
                  Word("Y", to_str3(b.y_start[1]))>> >>
        ELSE <<>>)
    \o SetZ(b.lines, hs[i])
    \o (IF i < Len(hs)
        THEN << <<>>, <<Word("G", 0), Word("Z", to_str3(b.z_start[1]))>> >>
        ELSE << <<>> >>)

\* formatting a start position that is None raises TypeError (676, 681)
PassesRaise(b, hs) ==
    Len(hs) > 1 /\ (b.z_start = None \/ b.x_start = None \/ b.y_start = None)

\* the text that the loop over the blocks builds (662-688)
BlocksText(blocks, z_min, hs) ==
    LET IsMin(k) == blocks[k].z = Some(z_min)
        op_num(k) == 1 + Cardinality({j \in 1..k : IsMin(j)})
        text(k) == IF IsMin(k)
                   THEN Flatten([i \in 1..Len(hs) |-> PassText(blocks[k], op_num(k), i, hs)])
                   ELSE blocks[k].lines
    IN  Flatten([k \in 1..Len(blocks) |-> text(k)])

\* os.path.splitext, the stepdown tag and the extension (653-656)
Renamed(fn, sd) == [fn EXCEPT !.tags = Append(@, to_str3(sd))]

\* zmultipass (621-690): [err, heights, filename, g], the exception, the pass
\* heights if they were computed, and the file name and text it leaves
zmultipass_of(g, filename, zt, sd0) ==
    LET kept(err, hs) == [err |-> err, heights |-> hs, filename |-> filename, g |-> g]
        sd == Abs(sd0[1])
        zl == ZLevelsOf(g)
        z_min == SeqMin(zl.z)
        hs == ZHeights(zt[1], sd, z_min)
        fn == Some(Renamed(filename[1], sd))
        zb == zblocks(g)
    IN  IF zt = None \/ sd0 = None THEN kept("ValueError", <<>>)
        ELSE IF sd0[1] = 0 THEN kept("ValueError", <<>>)
        ELSE IF zl.err # "" \/ zl.z = <<>> THEN kept("ValueError", <<>>)
        ELSE IF filename = None THEN kept("TypeError", hs)
        ELSE IF zb.err # ""
             THEN [err |-> zb.err, heights |-> hs, filename |-> fn, g |-> g]
        ELSE IF \E k \in 1..Len(zb.blocks) :
                    zb.blocks[k].z = Some(z_min) /\ PassesRaise(zb.blocks[k], hs)
             THEN [err |-> "TypeError", heights |-> hs, filename |-> fn, g |-> g]
        ELSE [err |-> "", heights |-> hs, filename |-> fn,
              g |-> BlocksText(zb.blocks, z_min, hs)]

(***************************************************************************)
(* GcodeUtils calls on a text given to the constructor                     *)
(***************************************************************************)
\* lines of the input programs: 'G1 X10 Y0 Z-2', 'G1 X0 Y5.5 F100',
\* 'G2 X-1.2345 Y2.0005 I1.0005 J-0.5', 'G1 X1.2.3 Y1', 'G1 Y. Z-.',
\* '; comment', 'G0 Z5', 'G1 X5', 'G1 X10 Y0 ; cut',
\* 'G0 (go) X1 Y2 S1000'
GuLines ==
    { <<Word("G", 10000), Word("X", 100000), Word("Y", 0), Word("Z", -20000)>>,
      <<Word("G", 10000), Word("X", 0), Word("Y", 55000), Word("F", 1000000)>>,
      <<Word("G", 20000), Word("X", -12345), Word("Y", 20005), Word("I", 10005),
        Word("J", -5000)>>,
      <<Word("G", 10000), Malformed("X", 1), Word("Y", 10000)>>,
      <<Word("G", 10000), Malformed("Y", 2), Malformed("Z", 3)>>,
      <<Text(1)>>,
      <<Word("G", 0), Word("Z", 50000)>>,
      <<Word("G", 10000), Word("X", 50000)>>,
      <<Word("G", 10000), Word("X", 100000), Word("Y", 0), Text(2)>>,
      <<Word("G", 0), Text(3), Word("X", 10000), Word("Y", 20000),
        Word("S", 10000000)>> }

Programs == UNION {[1..n -> GuLines] : n \in 1..MaxLines}

\* arguments of the calls: Translate vectors (x, y, z), Scale factors n/m,
\* ReplaceValue (command, oldvalue, newvalue)
TranslateArgs ==
    { <<100000, -50000, 0>>, <<-100000, 50000, 0>>,
      <<12345, 5, -20000>>, <<-12345, -5, 20000>> }
ScaleArgs == { <<2, 1>>, <<1, 2>> }
ReplaceValueArgs == { <<"F", 1000000, 1500000>>, <<"Z", -20000, -25005>> }

\* a call: it is recorded with its argument, the text before it and the
\* exception it raised
GuFrame(op, arg, err) ==
    /\ Len(gu_hist) < MaxOps
    /\ gu_hist' = Append(gu_hist, [op |-> op, arg |-> arg, pre |-> gu_gcode, raised |-> err])
    /\ gu_raised' = err
    /\ UNCHANGED <<tpvars, opvars, sfvars>>

Translate ==
    \E d \in TranslateArgs :
        LET r == TranslateBy(gu_gcode, d, 1)
        IN  /\ GuFrame("Translate", d, r.err)
            /\ gu_gcode' = r.g
            /\ UNCHANGED <<gu_filename, gu_ret>>

Scale ==
    \E f \in ScaleArgs :
        LET r == ScaleBy(gu_gcode, f[1], f[2])
        IN  /\ GuFrame("Scale", f, r.err)
            /\ gu_gcode' = r.g
            /\ UNCHANGED <<gu_filename, gu_ret>>

MirrorX ==
    LET r == MirrorXOf(gu_gcode)
    IN  /\ GuFrame("MirrorX", <<>>, r.err)
        /\ gu_gcode' = r.g
        /\ UNCHANGED <<gu_filename, gu_ret>>

MirrorY ==
    LET r == MirrorYOf(gu_gcode)
    IN  /\ GuFrame("MirrorY", <<>>, r.err)
        /\ gu_gcode' = r.g
        /\ UNCHANGED <<gu_filename, gu_ret>>

ReplaceValue ==
    \E a \in ReplaceValueArgs :
        LET r == ReplaceValueOf(gu_gcode, a[1], a[2], a[3])
        IN  /\ GuFrame("ReplaceValue", a, r.err)
            /\ gu_gcode' = r.g
            /\ UNCHANGED <<gu_filename, gu_ret>>

RotateArgs == { <<90, None, None>>, <<180, Some(0), Some(0)>>, <<-90, Some(10000), None>> }

Rotate ==
    \E a \in RotateArgs :
        LET r == RotateOf(gu_gcode, a[1], a[2], a[3])
        IN  /\ GuFrame("Rotate", a, r.err)
            /\ gu_gcode' = r.g
            /\ UNCHANGED <<gu_filename, gu_ret>>

Extents ==
    LET r == ExtentsOf(gu_gcode)
    IN  /\ GuFrame("Extents", <<>>, r.err)
        /\ gu_ret' = r.ext
        /\ UNCHANGED <<gu_gcode, gu_filename>>

ZLevels ==
    LET r == ZLevelsOf(gu_gcode)
    IN  /\ GuFrame("ZLevels", <<>>, r.err)
        /\ gu_ret' = r.z
        /\ UNCHANGED <<gu_gcode, gu_filename>>

\* no ToolPath object
TpIdle ==
    /\ kind = "None"
    /\ z_top = 0 /\ z_bottom = 0 /\ z_retract_dist = 0 /\ stepdown = 0
    /\ stepover = 0 /\ tool_dia = 0 /\ tool_angle = 0 /\ operation = "Pocket"
    /\ x = 0 /\ y = 0 /\ width = 0 /\ height = 0
    /\ radius = 0 /\ bore = FALSE /\ segments = 0 /\ depth = 0
    /\ gcode = <<>> /\ raised = "" /\ lastcall = "" /\ ncalls = 0
    /\ pre = Fields

\* GcodeUtils(gcode=text)
InitGcodeUtils ==
    /\ TpIdle
    /\ OpIdle
    /\ SfIdle
    /\ gu_gcode \in Programs
    /\ gu_filename = None
    /\ gu_raised = ""
    /\ gu_hist = <<>>
    /\ gu_ret = <<>>

NextGcodeUtils ==
    \/ Translate
    \/ Scale
    \/ MirrorX
    \/ MirrorY
    \/ ReplaceValue
    \/ Rotate
    \/ Extents
    \/ ZLevels

SpecGcodeUtils == InitGcodeUtils /\ [][NextGcodeUtils]_vars

(***************************************************************************)
(* zmultipass on a loaded file                                             *)
(***************************************************************************)
\* 'G21' / 'G0 Z5' / 'G0 X0 Y0' / 'G1 Z-0.4 F100' / 'G1 X10' / 'G0 Z5'
ProgramSlot ==
    << <<Word("G", 210000)>>,
       <<Word("G", 0), Word("Z", 50000)>>,
       <<Word("G", 0), Word("X", 0), Word("Y", 0)>>,
       <<Word("G", 10000), Word("Z", -4000), Word("F", 1000000)>>,
       <<Word("G", 10000), Word("X", 100000)>>,
       <<Word("G", 0), Word("Z", 50000)>> >>
\* the tool is positioned in XY before the first Z move
ProgramNoClearance ==
    << <<Word("G", 0), Word("X", 0), Word("Y", 0)>>,
       <<Word("G", 10000), Word("Z", -20000)>>,
       <<Word("G", 10000), Word("X", 100000), Word("Y", 55000)>>,
       <<Word("G", 0), Word("Z", 50000)>> >>
\* the first line carries a Z
ProgramZFirst ==
    << <<Word("G", 0), Word("Z", 50000)>>,
       <<Word("G", 0), Word("X", 0), Word("Y", 0)>>,
       <<Word("G", 10000), Word("Z", -20000)>>,
       <<Word("G", 10000), Word("X", 100000)>>,
       <<Word("G", 0), Word("Z", 50000)>> >>
\* no Z at all
ProgramFlat == << <<Text(1)>>, <<Word("G", 10000), Word("X", 50000)>> >>
\* a malformed Z
ProgramBadZ ==
    << <<Word("G", 210000)>>, <<Word("G", 10000), Malformed("Y", 2), Malformed("Z", 3)>> >>
\* a malformed X
ProgramBadX ==
    << <<Word("G", 210000)>>,
       <<Word("G", 0), Word("Z", 50000)>>,
       <<Word("G", 10000), Malformed("X", 1), Word("Y", 10000)>>,
       <<Word("G", 10000), Word("Z", -20000)>>,
       <<Word("G", 0), Word("Z", 50000)>> >>
\* two cuts at the minimum Z, a blank line in the second
ProgramTwoCuts ==
    << <<Word("G", 210000)>>,
       <<Word("G", 0), Word("Z", 50000)>>,
       <<Word("G", 0), Word("X", 0), Word("Y", 0)>>,
       <<Word("G", 10000), Word("Z", -20000)>>,
       <<Word("G", 10000), Word("X", 100000)>>,
       <<Word("G", 0), Word("Z", 50000)>>,
       <<Word("G", 0), Word("X", 200000), Word("Y", 0)>>,
       <<Word("G", 10000), Word("Z", -20000)>>,
       <<>>,
       <<Word("G", 10000), Word("X", 300000)>>,
       <<Word("G", 0), Word("Z", 50000)>> >>

MultipassPrograms ==
    { ProgramSlot, ProgramNoClearance, ProgramZFirst, ProgramFlat, ProgramBadZ,
      ProgramBadX, ProgramTwoCuts }

\* the file name of a loaded file: stem, the tags zmultipass added, extension
Filename == [stem |-> "part", tags |-> <<>>, ext |-> ".nc"]

\* arguments z_top and stepdown of zmultipass
ZTopArgs == {None, Some(0), Some(13000), Some(-20000)}
StepdownArgs == {None, Some(0), Some(1000), Some(4000), Some(-5000)}

zmultipass ==
    \E zt \in ZTopArgs, sd \in StepdownArgs :
        LET r == zmultipass_of(gu_gcode, gu_filename, zt, sd)
        IN  /\ GuFrame("zmultipass", <<zt, sd>>, r.err)
            /\ gu_gcode' = r.g
            /\ gu_filename' = r.filename
            /\ gu_ret' = r.heights

\* GcodeUtils(file=name) or GcodeUtils(gcode=text)
InitMultipass ==
    /\ TpIdle
    /\ OpIdle
    /\ SfIdle
    /\ gu_gcode \in MultipassPrograms
    /\ gu_filename \in {None, Some(Filename)}
    /\ gu_raised = ""
    /\ gu_hist = <<>>
    /\ gu_ret = <<>>

NextMultipass ==
    \/ zmultipass
    \/ ZLevels

SpecMultipass == InitMultipass /\ [][NextMultipass]_vars

(***************************************************************************)
(***************************************************************************)
(* Operation, OperationBore, OperationFace  (operations.py 98-1050)        *)
(*                                                                         *)
(* The CAD layer (build123d) is outside the repository: the model holds    *)
(* what it answers, the bounding boxes, the circular holes of the part and *)
(* the tool position.  Positions are vectors <<X, Y, Z>>.  A generated     *)
(* line is a sequence of words as in GcodeUtils; "FF" is the letter of the *)
(* token that f"F{str_speed_position}" prints ('FF100').                   *)
(***************************************************************************)
DefaultHeightSafe == 50000
DefaultOpSpeedFeed == 100
DefaultOpSpeedPosition == 100
\* np.inf, told from a value <<v>> by its length
Inf == <<1, 0>>

\* format(value, "0.3f") of n/d units, read back as a number of units
f3(n, d) == 10 * RoundHalfEven(n, 10 * d)

RECURSIVE GCD(_, _)
GCD(a, b) == IF b = 0 THEN a ELSE GCD(b, a % b)

\* Vector.length; the positions of the model are multiples of 0.01 mm whose
\* distances are multiples of 0.01 mm too
VecLength(v) ==
    LET a == [k \in 1..3 |-> Abs(v[k]) \div 100]
        s == a[1] * a[1] + a[2] * a[2] + a[3] * a[3]
    IN  100 * (CHOOSE k \in 0..(a[1] + a[2] + a[3]) : k * k = s)

\* a call on the Operation object
OpFrame(name, arg) ==
    /\ op_kind # "None"
    /\ Len(op_hist) < MaxOpCalls
    /\ op_raised # "NoReturn"
    /\ op_hist' = Append(op_hist, <<name, arg>>)
    /\ UNCHANGED <<tpvars, guvars, sfvars, op_kind, op_part>>

\* the property setters (254-328): float(value), ValueError below 0, the
\* value is stored and the operation list cleared
OpSetterRaises(value) == value < 0

OpSetter(name, value) ==
    /\ OpFrame(name, value)
    /\ op_raised' = IF OpSetterRaises(value) THEN "ValueError" ELSE ""
    /\ op_ops' = IF OpSetterRaises(value) THEN op_ops ELSE <<>>
    /\ UNCHANGED <<op_tool, op_stock, op_diameter_min, op_diameter_max, op_bores,
                   op_locations, op_file>>

DocVals == {0, 7500, -7500}
WocVals == {0, 12700}
StockToLeaveRadialVals == {10000}
StockToLeaveAxialVals == {5000, 40000}

set_doc ==
    \E value \in DocVals :
        /\ OpSetter("doc", value)
        /\ op_doc' = IF OpSetterRaises(value) THEN op_doc ELSE value
        /\ UNCHANGED <<op_woc, op_stock_to_leave_radial, op_stock_to_leave_axial>>

set_woc ==
    \E value \in WocVals :
        /\ OpSetter("woc", value)
        /\ op_woc' = IF OpSetterRaises(value) THEN op_woc ELSE value
        /\ UNCHANGED <<op_doc, op_stock_to_leave_radial, op_stock_to_leave_axial>>

set_stock_to_leave_radial ==
    \E value \in StockToLeaveRadialVals :
        /\ OpSetter("stock_to_leave_radial", value)
        /\ op_stock_to_leave_radial' =
               IF OpSetterRaises(value) THEN op_stock_to_leave_radial ELSE value
        /\ UNCHANGED <<op_doc, op_woc, op_stock_to_leave_axial>>

set_stock_to_leave_axial ==
    \E value \in StockToLeaveAxialVals :
        /\ OpSetter("stock_to_leave_axial", value)
        /\ op_stock_to_leave_axial' =
               IF OpSetterRaises(value) THEN op_stock_to_leave_axial ELSE value
        /\ UNCHANGED <<op_doc, op_woc, op_stock_to_leave_radial>>

\* ---- OperationBore (647-931)
\* the bound of diameter_min (704-707, 722-725): max(1.1 * tool diameter,
\* tool diameter + 2 * stock_to_leave_radial); the tool diameters of the
\* model are multiples of 0.001 mm, which keeps 1.1 * diameter whole
DiameterMinBound(stl_radial) ==
    LET a == (op_tool.diameter * 11) \div 10
        b == op_tool.diameter + 2 * stl_radial
    IN  IF a >= b THEN a ELSE b

\* the diameter_min property (685-715): it stores the bound when nothing is
\* stored or when what is stored lies below the bound; the value it leaves
\* in _diameter_min is the value it returns
DiameterMinGet(dmin) ==
    IF dmin = None THEN DiameterMinBound(op_stock_to_leave_radial)
    ELSE IF dmin[1] < DiameterMinBound(op_stock_to_leave_radial)
    THEN DiameterMinBound(op_stock_to_leave_radial)
    ELSE dmin[1]

DiameterMinVals == {None, Some(50000), Some(10000)}
DiameterMaxVals == {None, Some(40000)}

\* diameter_min.setter (717-745)
set_diameter_min ==
    \E value \in DiameterMinVals :
        /\ op_kind = "Bore"
        /\ OpFrame("diameter_min", value)
        /\ op_raised' = ""
        /\ op_diameter_min' =
               IF value = None \/ value[1] < DiameterMinBound(op_stock_to_leave_radial)
               THEN Some(DiameterMinBound(op_stock_to_leave_radial))
               ELSE value
        /\ op_ops' = <<>>
        /\ UNCHANGED <<op_tool, op_stock, op_doc, op_woc, op_stock_to_leave_radial,
                       op_stock_to_leave_axial, op_diameter_max, op_bores,
                       op_locations, op_file>>

\* diameter_max.setter (761-777)
set_diameter_max ==
    \E value \in DiameterMaxVals :
        /\ op_kind = "Bore"
        /\ OpFrame("diameter_max", value)
        /\ op_raised' = ""
        /\ op_diameter_max' = value
        /\ op_ops' = <<>>
        /\ UNCHANGED <<op_tool, op_stock, op_doc, op_woc, op_stock_to_leave_radial,
                       op_stock_to_leave_axial, op_diameter_min, op_bores,
                       op_locations, op_file>>

\* (a selection that also asks the tool to reach the bottom of the bore)
BoresSelectedByDepth(value, dmin, dmax) ==
    LET Fits(b) == /\ b.diameter >= dmin
                   /\ (dmax = Inf \/ b.diameter <= dmax[1])
                   /\ b.depth - op_stock_to_leave_axial <= op_tool.length
    IN  SelectSeq(value, Fits)

\* bores.setter (806-839), the loop: the bores of value whose diameter lies
\* between diameter_min and diameter_max
BoresSelected(value, dmin, dmax) ==
    LET Fits(b) == /\ b.diameter >= dmin
                   /\ (dmax = Inf \/ b.diameter <= dmax[1])
    IN  SelectSeq(value, Fits)

\* Bore.find_bores (603-634): the circular holes of the upward faces
BoreFindBores(part) == part.bores

\* find_bores (779-791): self.bores = Bore.find_bores(self.part); the setter
\* replaces a diameter_max of None by inf and reads diameter_min once for
\* every bore it is given
find_bores ==
    LET value == BoreFindBores(op_part)
        dmax == IF op_diameter_max = None THEN Inf ELSE op_diameter_max
        dmin == DiameterMinGet(op_diameter_min)
    IN  /\ op_kind = "Bore"
        /\ OpFrame("find_bores", <<>>)
        /\ op_raised' = ""
        /\ op_diameter_max' = dmax
        /\ op_diameter_min' = IF value = <<>> THEN op_diameter_min ELSE Some(dmin)
        /\ op_bores' = BoresSelected(value, dmin, dmax)
        /\ op_ops' = <<>>
        /\ UNCHANGED <<op_tool, op_stock, op_doc, op_woc, op_stock_to_leave_radial,
                       op_stock_to_leave_axial, op_locations, op_file>>

\* the line op_safe_z (851-854, 975-978)
OpSafeZ ==
    <<Word("G", 0), Word("Z", f3(op_stock.max[3] + DefaultHeightSafe, 1)),
      Word("F", 10000 * DefaultOpSpeedPosition)>>

\* OperationBore.generate, the spiral (904-923): z2 and z_min2 are twice z
\* and z_min, doc is not 0 or the bore has no depth
RECURSIVE BoreSpiral(_, _)
BoreSpiral(z2, z_min2) ==
    LET op == <<Word("G", 20000), Word("I", 0), Word("J", 0), Word("Z", f3(z2, 2)),
                Word("FF", 10000 * DefaultOpSpeedFeed)>>
        next == z2 - 2 * op_doc
    IN  IF z2 < z_min2 THEN <<>>
        ELSE IF z2 = z_min2 THEN <<op>>
        ELSE <<op>> \o BoreSpiral(IF next < z_min2 THEN z_min2 ELSE next, z_min2)

\* OperationBore.generate (841-931) for the first selected bore: [err, ops]
BoreGenerate ==
    LET bore1 == op_bores[1]
        radius2 == bore1.diameter - op_tool.diameter - 2 * op_stock_to_leave_radial
        vect == [k \in 1..3 |-> op_tool.position[k] - bore1.top[k]]
        len2 == 2 * VecLength(vect)
        g == GCD(Abs(radius2), len2)
        rn == radius2 \div g
        rd == len2 \div g
        z_min2 == 2 * (bore1.top[3] - bore1.depth)
        z2 == 2 * bore1.top[3] - op_doc
        header == << <<>>,
                     <<Text("rule")>>,
                     <<Text("Bore Operation")>>,
                     <<Text(<<"X =", f3(bore1.top[1], 1)>>)>>,
                     <<Text(<<"Y =", f3(bore1.top[1], 1)>>)>>,
                     <<Text(<<"Radius =", f3(bore1.diameter, 2)>>)>>,
                     <<Text(<<"Depth  =", f3(bore1.depth, 1)>>)>>,
                     <<Text("rule")>>,
                     OpSafeZ >>
    IN  IF op_bores = <<>> THEN [err |-> "ValueError", ops |-> op_ops]
        ELSE IF len2 = 0 THEN [err |-> "ZeroDivisionError", ops |-> op_ops]
        ELSE IF op_doc = 0 /\ bore1.depth > 0 THEN [err |-> "NoReturn", ops |-> op_ops]
        ELSE [err |-> "",
              ops |-> header
                  \o << <<Word("G", 0),
                          Word("X", f3(bore1.top[1] * rd + vect[1] * rn, rd)),
                          Word("Y", f3(bore1.top[2] * rd + vect[2] * rn, rd)),
                          Word("FF", 10000 * DefaultOpSpeedPosition)>>,
                        <<Word("G", 0), Word("Z", f3(2 * bore1.top[3] + op_doc, 2)),
                          Word("FF", 10000 * DefaultOpSpeedPosition)>> >>
                  \o BoreSpiral(IF z2 < z_min2 THEN z_min2 ELSE z2, z_min2)
                  \o << <<Word("G", 20000), Word("I", 0), Word("J", 0),
                          Word("FF", 10000 * DefaultOpSpeedFeed)>>,
                        OpSafeZ >>]

\* ---- OperationFace (934-1050)
\* the strokes of one pass (1022-1036): x2 is twice x
RECURSIVE FaceOpStrokes(_, _, _)
FaceOpStrokes(x2, y_min, y_max) ==
    IF x2 >= 2 * op_stock.max[1] THEN <<>>
    ELSE << <<Word("G", 10000), Word("Y", y_max), Word("F", 10000 * DefaultOpSpeedFeed)>>,
            <<Word("G", 10000), Word("X", f3(x2 + 2 * op_woc, 2)),
              Word("F", 10000 * DefaultOpSpeedPosition)>>,
            <<Word("G", 10000), Word("Y", y_min), Word("F", 10000 * DefaultOpSpeedFeed)>>,
            <<Word("G", 10000), Word("X", f3(x2 + 4 * op_woc, 2)),
              Word("F", 10000 * DefaultOpSpeedPosition)>> >>
         \o FaceOpStrokes(x2 + 4 * op_woc, y_min, y_max)

\* the passes (1007-1045)
RECURSIVE FaceOpPasses(_, _, _)
FaceOpPasses(z, z_min, i_pass) ==
    LET x_start2 == 2 * op_woc - op_tool.diameter
        y_max == f3(20 * op_stock.max[2] + 11 * op_tool.diameter, 20)
        y_min == f3(20 * op_stock.min[2] - 11 * op_tool.diameter, 20)
        pass == << <<>>,
                   <<Text(<<"Pass", i_pass>>)>>,
                   <<Word("G", 0), Word("X", f3(x_start2, 2)), Word("Y", y_min),
                     Word("F", 10000 * DefaultOpSpeedPosition)>>,
                   <<Word("G", 0), Word("Z", f3(z, 1)),
                     Word("F", 10000 * DefaultOpSpeedPosition)>> >>
                \o FaceOpStrokes(x_start2, y_min, y_max)
        next == z - op_doc
    IN  IF z < z_min THEN <<>>
        ELSE IF z = z_min THEN pass
        ELSE pass \o FaceOpPasses(IF next < z_min THEN z_min ELSE next, z_min, i_pass + 1)

\* z_min (998) and the first z (1000-1005)
FaceOpZMin == op_part.top + op_stock_to_leave_axial

\* (a first height that is not held at z_min)
FaceOpZFirstUnclamped == Neg(op_doc)

FaceOpZFirst == IF Neg(op_doc) < FaceOpZMin THEN FaceOpZMin ELSE Neg(op_doc)

\* OperationFace.generate (965-1050): [err, ops]
FaceGenerate ==
    IF \/ op_woc = 0 /\ 2 * op_woc - op_tool.diameter < 2 * op_stock.max[1]
       \/ op_doc = 0 /\ FaceOpZMin < 0
    THEN [err |-> "NoReturn", ops |-> op_ops]
    ELSE [err |-> "",
          ops |-> <<OpSafeZ>> \o FaceOpPasses(FaceOpZFirst, FaceOpZMin, 1) \o <<OpSafeZ>>]

OpGenerated ==
    IF op_kind = "Bore" THEN BoreGenerate ELSE FaceGenerate

\* generate()
generate ==
    /\ OpFrame("generate", <<>>)
    /\ op_raised' = OpGenerated.err
    /\ op_ops' = OpGenerated.ops
    /\ UNCHANGED <<op_tool, op_stock, op_doc, op_woc, op_stock_to_leave_radial,
                   op_stock_to_leave_axial, op_diameter_min, op_diameter_max,
                   op_bores, op_locations, op_file>>

\* what "if not self._ops: self.generate()" leaves (342-343, 385-386)
OpsOnDemand == IF op_ops = <<>> THEN OpGenerated ELSE [err |-> "", ops |-> op_ops]

\* the gcode property (330-347): it returns the joined lines
gcode_get ==
    /\ OpFrame("gcode", <<>>)
    /\ op_raised' = OpsOnDemand.err
    /\ op_ops' = OpsOnDemand.ops
    /\ UNCHANGED <<op_tool, op_stock, op_doc, op_woc, op_stock_to_leave_radial,
                   op_stock_to_leave_axial, op_diameter_min, op_diameter_max,
                   op_bores, op_locations, op_file>>

\* save_gcode() (349-364): open(filename, "w") empties the file before
\* self.gcode is evaluated
save_gcode ==
    /\ OpFrame("save_gcode", <<>>)
    /\ op_raised' = OpsOnDemand.err
    /\ op_ops' = OpsOnDemand.ops
    /\ op_file' = IF OpsOnDemand.err = "" THEN Some(OpsOnDemand.ops) ELSE Some(<<>>)
    /\ UNCHANGED <<op_tool, op_stock, op_doc, op_woc, op_stock_to_leave_radial,
                   op_stock_to_leave_axial, op_diameter_min, op_diameter_max,
                   op_bores, op_locations>>

\* to_wire (380-454), one line of the loop: the value of the group c when
\* it stands at position p of the line
ToWireGroup(line, p, c) == p <= Len(line) /\ line[p].c = c

\* the groups X, Y, Z of a line (388): they follow the command in this
\* order; <<>> for a group that is missing
ToWireVals(line) ==
    LET hasX == ToWireGroup(line, 2, "X")
        pY == IF hasX THEN 3 ELSE 2
        hasY == ToWireGroup(line, pY, "Y")
        pZ == IF hasY THEN pY + 1 ELSE pY
        hasZ == ToWireGroup(line, pZ, "Z")
    IN  << IF hasX THEN Some(line[2].v) ELSE None,
           IF hasY THEN Some(line[pY].v) ELSE None,
           IF hasZ THEN Some(line[pZ].v) ELSE None >>

\* (a conversion that takes an arc for a move to its end point)
ToWireCmdArcsAsMoves(cmd) ==
    IF cmd \in {0, 10000, 20000, 30000} THEN "" ELSE "ValueError"

\* what the command of a line does (432-447): "" for a linear move
ToWireCmd(cmd) ==
    IF cmd \in {0, 10000} THEN ""
    ELSE IF cmd \in {20000, 30000} THEN "NotImplementedError"
    ELSE "ValueError"

\* the loop over the lines (397-447) that are commands, given by their
\* command numbers cmd and their groups vals: [err, locations].  The loop
\* stops at the first command that is not a linear move.  A move goes to
\* the coordinates of its groups, a missing group keeps the coordinate of
\* pos, which is the coordinate last given (421-428, 437).
ToWireMoves(cmd, vals, pos) ==
    LET bad == {n \in 1..Len(cmd) : ToWireCmd(cmd[n]) # ""}
        stop == IF bad = {} THEN Len(cmd) + 1
                ELSE CHOOSE n \in bad : \A m \in bad : n <= m
        LastGiven(n, i) == {m \in 1..n : /\ vals[m][i] # None
                                         /\ \A q \in (m + 1)..n : vals[q][i] = None}
        Coord(n, i) ==
            IF LastGiven(n, i) = {} THEN pos[i]
            ELSE vals[CHOOSE m \in LastGiven(n, i) : TRUE][i][1]
    IN  [err |-> IF bad = {} THEN "" ELSE ToWireCmd(cmd[stop]),
         locations |-> <<pos>> \o [n \in 1..(stop - 1) |->
                                      <<Coord(n, 1), Coord(n, 2), Coord(n, 3)>>]]

\* the lines that are not blank, no comment and a match of the expression
\* (399-413)
ToWireScan(ops, pos) ==
    LET IsCmd(k) == ops[k] # <<>> /\ ops[k][1].c = "G"
        cmds == SelectSeq([k \in 1..Len(ops) |-> k], IsCmd)
    IN  CHOOSE r \in {ToWireMoves(t.cmd, t.vals, pos) :
                       t \in {[cmd |-> <<>> \o [n \in 1..Len(cmds) |-> ops[cmds[n]][1].v],
                               vals |-> <<>> \o [n \in 1..Len(cmds) |->
                                                    ToWireVals(ops[cmds[n]])]]}} : TRUE

\* to_wire() on the operation list g.ops: [err, ops, locations]; _locations
\* is assigned at the end
ToWireOf(g) ==
    LET w == ToWireScan(g.ops, op_tool.position)
    IN  IF g.err # "" THEN [err |-> g.err, ops |-> g.ops, locations |-> op_locations]
        ELSE IF w.err # "" THEN [err |-> w.err, ops |-> g.ops, locations |-> op_locations]
        ELSE [err |-> "", ops |-> g.ops, locations |-> Some(w.locations)]

ToWire == CHOOSE r \in {ToWireOf(g) : g \in {OpsOnDemand}} : TRUE

to_wire ==
    /\ OpFrame("to_wire", <<>>)
    /\ op_raised' = ToWire.err
    /\ op_ops' = ToWire.ops
    /\ op_locations' = ToWire.locations
    /\ UNCHANGED <<op_tool, op_stock, op_doc, op_woc, op_stock_to_leave_radial,
                   op_stock_to_leave_axial, op_diameter_min, op_diameter_max,
                   op_bores, op_file>>

\* the lowest height of a non-empty sequence of positions
LowestZ(locations) == SeqMin([k \in 1..Len(locations) |-> locations[k][3]])

\* cut() (456-501): the locations are computed only when none are stored;
\* the tool is put on the first location and swept to every other one, each
\* time a volume is subtracted from the stock.  What is left of the stock is
\* computed by the CAD layer: its top is where it was or, when all of it was
\* cut away, at the lowest height the tool went to.
cut ==
    LET w == IF op_locations = None \/ op_locations = Some(<<>>)
             THEN ToWire
             ELSE [err |-> "", ops |-> op_ops, locations |-> op_locations]
    IN  /\ OpFrame("cut", <<>>)
        /\ op_raised' = w.err
        /\ op_ops' = w.ops
        /\ op_locations' = w.locations
        /\ IF w.err # "" THEN UNCHANGED <<op_tool, op_stock>>
           ELSE LET locations == w.locations[1]
                    low == LowestZ(locations)
                IN  /\ op_tool' = [op_tool EXCEPT !.position = locations[Len(locations)]]
                    /\ \E top \in {op_stock.max[3],
                                   IF low < op_stock.max[3] THEN low ELSE op_stock.max[3]} :
                           op_stock' = [op_stock EXCEPT !.max[3] = top,
                                                        !.cuts = @ + Len(locations)]
        /\ UNCHANGED <<op_doc, op_woc, op_stock_to_leave_radial, op_stock_to_leave_axial,
                       op_diameter_min, op_diameter_max, op_bores, op_file>>

\* ---- construction (99-131, 660-679, 945-959)
\* Tool(diameter, length) (tools.py 19-29), at the home position
Tools ==
    { [diameter |-> 15000, length |-> 254000, position |-> <<0, 0, 0>>],
      [diameter |-> 25000, length |-> 80000, position |-> <<0, 0, 0>>] }

\* a part and the stock that stock_make (45-90) fits to it, top at Z = 0:
\* a block with bores of diameter 2, 4, 4, 6 mm, 10, 10, 7, 10 mm deep, in a
\* stock without margin; a plate without holes 1 mm under the top of its stock
Setups ==
    { [part |-> [top |-> 0,
                 bores |-> << [diameter |-> 20000, depth |-> 100000, top |-> <<30000, 40000, 0>>],
                              [diameter |-> 40000, depth |-> 100000, top |-> <<60000, 80000, 0>>],
                              [diameter |-> 40000, depth |-> 70000, top |-> <<90000, 120000, 0>>],
                              [diameter |-> 60000, depth |-> 100000, top |-> <<120000, 160000, 0>>] >>],
       stock |-> [min |-> <<0, 0, -100000>>, max |-> <<200000, 200000, 0>>, cuts |-> 0]],
      [part |-> [top |-> -10000, bores |-> <<>>],
       stock |-> [min |-> <<0, 0, -30000>>, max |-> <<50000, 40000, 0>>, cuts |-> 0]] }

DefaultDoc == 3000
DefaultWoc == 5000

InitOperation ==
    /\ TpIdle
    /\ GuIdle
    /\ SfIdle
    /\ op_kind \in {"Bore", "Face"}
    /\ op_tool \in Tools
    /\ \E s \in Setups : op_part = s.part /\ op_stock = s.stock
    /\ op_doc = DefaultDoc /\ op_woc = DefaultWoc
    /\ op_stock_to_leave_radial = 0 /\ op_stock_to_leave_axial = 0
    /\ op_diameter_min = None /\ op_diameter_max = None
    /\ op_bores = <<>> /\ op_ops = <<>> /\ op_locations = None /\ op_file = None
    /\ op_raised = "" /\ op_hist = <<>>

NextOperation ==
    \/ set_doc
    \/ set_woc
    \/ set_stock_to_leave_radial
    \/ set_stock_to_leave_axial
    \/ set_diameter_min
    \/ set_diameter_max
    \/ find_bores
    \/ generate
    \/ gcode_get
    \/ save_gcode
    \/ to_wire
    \/ cut

SpecOperation == InitOperation /\ [][NextOperation]_vars

(* Properties of the generators                                            *)
(***************************************************************************)
Generated == lastcall = "GCode" /\ raised = ""

IsXYZ(l) == l.cmd = "G1" /\ l.x # None /\ l.y # None /\ l.z # None /\ l.r = None
\* the 'G1 X.. Y.. Z..' lines of the buffer, in order
CutLines == SelectSeq(gcode, IsXYZ)


\* C1: for z_top >= z_bottom, stepdown > 0 and tool_angle = 0 the rectangle
\* generator emits exactly ceil((z_top - z_bottom)/stepdown) + 1 passes of five
\* G1 X Y Z lines, no pass goes below z_bottom, and the last pass is at z_bottom.
C1_RectanglePassesReachBottom ==
    (kind = "Rectangle" /\ lastcall = "GCode" /\ tool_angle = 0
        /\ z_top >= z_bottom /\ pre.stepdown > 0 /\ tool_dia >= stepover)
    => /\ raised = ""
       /\ Len(CutLines) = 5 * (Ceil(z_top - z_bottom, pre.stepdown) + 1)
       /\ \A k \in 1..Len(CutLines) : CutLines[k].z[1] >= z_bottom
       /\ \A k \in (Len(CutLines) - 4)..Len(CutLines) : CutLines[k].z[1] = z_bottom

\* the end-to-end scenario of C2: Rectangle(0, 0, 40, 5.5), z_top 0, z_bottom -15,
\* stepdown 0.75, tool 3.175, Pocket
FixtureSlot ==
    /\ kind = "Rectangle" /\ Generated
    /\ x = 0 /\ y = 0 /\ width = 400000 /\ height = 55000
    /\ z_top = 0 /\ z_bottom = -150000 /\ stepdown = 7500
    /\ tool_dia = 31750 /\ tool_angle = 0 /\ operation = "Pocket"

Xs(ls) == [k \in 1..Len(ls) |-> ls[k].x[1]]
Ys(ls) == [k \in 1..Len(ls) |-> ls[k].y[1]]
Zs(ls) == [k \in 1..Len(ls) |-> ls[k].z[1]]

\* C2 as claimed: in the scenario the corners of the emitted passes span
\* [-tool_rad, width + tool_rad] x [-tool_rad, height + tool_rad], that is
\* [-1.5875, -1.5875, 41.5875, 7.0875], and the minimum Z is exactly -15.
C2_PocketExtentsOutside ==
    FixtureSlot
    => /\ Near(SeqMin(Xs(CutLines)), -15875, 5)
       /\ Near(SeqMin(Ys(CutLines)), -15875, 5)
       /\ Near(SeqMax(Xs(CutLines)), 415875, 5)
       /\ Near(SeqMax(Ys(CutLines)), 70875, 5)
       /\ SeqMin(Zs(CutLines)) = -150000

\* C2, amended: in the scenario the corners of the 20 passes of the descent span
\* [tool_rad, width - tool_rad] x [tool_rad, height - tool_rad], that is
\* [1.5875, 1.5875, 38.4125, 3.9125] to the 3 printed decimals, and the minimum
\* emitted Z is exactly -15.
C2_PocketExtentsInside ==
    FixtureSlot
    => LET descent == SubSeq(CutLines, 1, 100)
       IN  /\ Len(CutLines) >= 100
           /\ Near(SeqMin(Xs(descent)), 15875, 5)
           /\ Near(SeqMin(Ys(descent)), 15875, 5)
           /\ Near(SeqMax(Xs(descent)), 384125, 5)
           /\ Near(SeqMax(Ys(descent)), 39125, 5)
           /\ SeqMin(Zs(CutLines)) = -150000

C2_Witness == FixtureSlot /\ Len(CutLines) >= 100

\* C10 as claimed: a call of GCode() or ParamCheck() with z_top < z_bottom or
\* stepover >= tool_dia raises ValueError and leaves the G-code buffer as it was.
C10_BadParametersRejected ==
    (lastcall \in {"GCode", "ParamCheck"} /\ (z_top < z_bottom \/ stepover >= tool_dia))
    => (raised = "ValueError" /\ gcode = pre.gcode)

\* ---- cylinder ----
IsPoint(l) == l.r # None
SamePoint(a, b) ==
    /\ a.r = b.r /\ a.x = b.x /\ a.y = b.y
    /\ a.idx[1] % segments = b.idx[1] % segments

IsPassComment(l) == l.cmd = ";" /\ l.txt = "Pass"
PassStarts == {k \in 1..Len(gcode) : IsPassComment(gcode[k])}
\* the line after the last line of the pass that starts at line k
PassEnd(k) ==
    LET later == {j \in (k + 1)..Len(gcode) :
                    IsPassComment(gcode[j]) \/ (gcode[j].cmd = ";" /\ gcode[j].txt = "Retract")}
    IN  CHOOSE j \in later : \A i \in later : j <= i
PassPoints(k) == {j \in (k + 1)..(PassEnd(k) - 1) : IsPoint(gcode[j])}
FirstOf(S) == CHOOSE j \in S : \A i \in S : j <= i
LastOf(S) == CHOOSE j \in S : \A i \in S : j >= i

\* points compared by their index around the circle only
SameIndex(a, b) == a.idx[1] % segments = b.idx[1] % segments

\* C7 as claimed: in every pass the last XY point emitted within the pass is
\* the first XY point emitted within it (compared by index around the circle,
\* index segments being index 0).
C7_PassEndsOnItsFirstPoint ==
    (kind = "Cylinder" /\ Generated)
    => \A k \in PassStarts :
          SameIndex(gcode[LastOf(PassPoints(k))], gcode[FirstOf(PassPoints(k))])

\* C7, amended: in every pass the helix turn is closed by the first G1 line
\* that follows its `segments` helix points (the move to the last helix point
\* when stepover > 0, else the first point of the next pass or the terminal
\* closing line): that line is the same XY point as the first point of the pass.
C7_HelixTurnIsClosed ==
    (kind = "Cylinder" /\ Generated)
    => \A k \in PassStarts :
          LET after == {j \in (k + segments + 1)..Len(gcode) : IsPoint(gcode[j])}
          IN  /\ \A j \in (k + 1)..(k + segments) : IsPoint(gcode[j]) /\ gcode[j].z # None
              /\ after # {}
              /\ gcode[FirstOf(after)].cmd = "G1"
              /\ SamePoint(gcode[FirstOf(after)], gcode[k + 1])

C7_Witness ==
    /\ kind = "Cylinder" /\ Generated /\ segments = 30
    /\ Cardinality(PassStarts) >= 2
    /\ stepover > 0

\* the comments that open a section of cutting moves
IsHead(l) ==
    l.cmd = ";" /\ l.txt \in {"Position for start", "Pass",
                              "Finishing Rough, Pass", "Finishing Cut, Pass"}
Heads == {j \in 1..Len(gcode) : IsHead(gcode[j])}
\* the line after the last line of the section that starts at line h
SectionEnd(heads, h) ==
    IF \E j \in heads : j > h
    THEN CHOOSE j \in heads : j > h /\ \A i \in heads : i > h => j <= i
    ELSE Len(gcode) + 1
\* the terminal closing line of the program
LastPoint ==
    CHOOSE j \in 1..Len(gcode) :
        IsPoint(gcode[j]) /\ \A i \in (j + 1)..Len(gcode) : ~IsPoint(gcode[i])
\* the last comment at or before line k that opens a section of cutting moves
SectionOf(k) == gcode[LastOf({j \in 1..k : IsHead(gcode[j])})].txt

\* C8: the helix (and the rough finishing loop) lie on the circle of radius
\* radius - tool_rad - stepover for a bore and radius + tool_rad + stepover
\* otherwise, and the finishing loop on radius -/+ tool_rad only; with
\* radius 10, tool 3.175, bore and stepover 0 every point is on 8.4125.
C8_HelixAndFinishRadius ==
    (kind = "Cylinder" /\ Generated)
    => /\ \A heads \in {Heads}, last \in {LastPoint} :
          \A h \in heads :
             \A k \in (h + 1)..(SectionEnd(heads, h) - 1) :
                IsPoint(gcode[k]) =>
                   IF gcode[h].txt = "Finishing Cut, Pass" /\ k # last
                   THEN 2 * gcode[k].r[1] = (IF bore THEN 2 * radius - tool_dia
                                             ELSE 2 * radius + tool_dia)
                   ELSE 2 * gcode[k].r[1] = (IF bore THEN 2 * radius - tool_dia - 2 * stepover
                                             ELSE 2 * radius + tool_dia + 2 * stepover)
       /\ \A k \in 1..Len(gcode) : IsPoint(gcode[k]) => \E h \in 1..k : IsHead(gcode[h])
       /\ (radius = 100000 /\ tool_dia = 31750 /\ bore /\ stepover = 0)
             => \A k \in 1..Len(gcode) : IsPoint(gcode[k]) => gcode[k].r[1] = 84125

C8_Witness ==
    /\ kind = "Cylinder" /\ Generated
    /\ radius = 100000 /\ tool_dia = 31750 /\ bore /\ stepover = 0
    /\ \E k \in 1..Len(gcode) : IsPoint(gcode[k]) /\ gcode[k].r[1] = 84125

C8_WitnessFinish ==
    /\ kind = "Cylinder" /\ Generated /\ stepover > 0
    /\ \E k \in 1..Len(gcode) : IsPoint(gcode[k]) /\ SectionOf(k) = "Finishing Cut, Pass"

(***************************************************************************)
(* Properties of GcodeUtils                                                *)
(***************************************************************************)
Last == gu_hist[Len(gu_hist)]
Prev == gu_hist[Len(gu_hist) - 1]

\* the values of the well-formed tokens of letter c
AxisVals(g, c) ==
    UNION { {g[i][j].v : j \in {k \in 1..Len(g[i]) : g[i][k].c = c /\ g[i][k].ok}} :
            i \in 1..Len(g) }
SetMin(S) == CHOOSE v \in S : \A w \in S : v <= w
SetMax(S) == CHOOSE v \in S : \A w \in S : v >= w
\* twice the midpoint of the minimum and the maximum of the tokens of letter c
TrueCentre2(g, c) == SetMin(AxisVals(g, c)) + SetMax(AxisVals(g, c))

SameShape(g, h) ==
    /\ Len(g) = Len(h)
    /\ \A i \in 1..Len(g) :
          /\ Len(g[i]) = Len(h[i])
          /\ \A j \in 1..Len(g[i]) : g[i][j].c = h[i][j].c /\ g[i][j].ok = h[i][j].ok

\* C4: after Scale(f), f > 0, the centre of the bounding box (per axis the
\* midpoint of the minimum and the maximum of all token values) is the centre
\* before the call, within the 3-decimal formatting tolerance.
C4_ScaleKeepsCentre ==
    (Len(gu_hist) >= 1 /\ Last.op = "Scale" /\ Last.raised = "")
    => \A c \in {"X", "Y", "Z"} :
          AxisVals(Last.pre, c) # {}
          => Near(TrueCentre2(gu_gcode, c), TrueCentre2(Last.pre, c), 20)

\* Extents() is right about the text g: it returns the true bounds
ExtentsRight(g) ==
    /\ ExtentsOf(g).err = ""
    /\ \A a \in 1..3 :
          LET c == <<"X", "Y", "Z">>[a]
          IN  AxisVals(g, c) # {}
              => /\ ExtentsOf(g).ext[a] = SetMin(AxisVals(g, c))
                 /\ ExtentsOf(g).ext[a + 3] = SetMax(AxisVals(g, c))

\* Scale keeps the centre of every text whose extents Extents() gets right,
\* before and after the call
C4_ScaleKeepsCentreWhenExtentsRight ==
    (Len(gu_hist) >= 1 /\ Last.op = "Scale" /\ Last.raised = ""
        /\ ExtentsRight(Last.pre) /\ ExtentsRight(gu_gcode))
    => \A c \in {"X", "Y", "Z"} :
          AxisVals(Last.pre, c) # {}
          => Near(TrueCentre2(gu_gcode, c), TrueCentre2(Last.pre, c), 20)

\* the last two calls were Translate(d) and then Translate(-d)
TranslatedThereAndBack ==
    /\ Len(gu_hist) >= 2
    /\ Prev.op = "Translate" /\ Last.op = "Translate"
    /\ Last.arg = <<Neg(Prev.arg[1]), Neg(Prev.arg[2]), Neg(Prev.arg[3])>>

\* C5: Translate(d) followed by Translate(-d) restores every X, Y and Z token
\* value (and with them the extents) within the 3-decimal formatting
\* tolerance, and changes nothing else.
C5_TranslateRoundTrip ==
    TranslatedThereAndBack
    => /\ SameShape(gu_gcode, Prev.pre)
       /\ \A i \in 1..Len(gu_gcode) : \A j \in 1..Len(gu_gcode[i]) :
             LET w == gu_gcode[i][j]
                 o == Prev.pre[i][j]
             IN  IF w.c \in {"X", "Y", "Z"} /\ w.ok
                 THEN Near(w.v, o.v, 10)
                 ELSE w = o
       /\ \A c \in {"X", "Y", "Z"} :
             AxisVals(Prev.pre, c) # {}
             => /\ Near(SetMin(AxisVals(gu_gcode, c)), SetMin(AxisVals(Prev.pre, c)), 10)
                /\ Near(SetMax(AxisVals(gu_gcode, c)), SetMax(AxisVals(Prev.pre, c)), 10)

\* both calls returned, the text was moved in between and a value that has
\* four decimals came back rounded
C5_Witness ==
    /\ TranslatedThereAndBack
    /\ Prev.raised = "" /\ Last.raised = ""
    /\ Last.pre # Prev.pre
    /\ gu_gcode # Prev.pre

\* the last two calls were both MirrorX or both MirrorY
MirroredTwice ==
    /\ Len(gu_hist) >= 2
    /\ Prev.op \in {"MirrorX", "MirrorY"}
    /\ Last.op = Prev.op

\* C6: after MirrorX() twice, or MirrorY() twice, every line and token is the
\* original one up to number formatting: a mirrored token has the value of
\* _to_str of the original value, everything else is unchanged.
C6_MirrorTwiceIsIdentity ==
    MirroredTwice
    => /\ SameShape(gu_gcode, Prev.pre)
       /\ \A i \in 1..Len(gu_gcode) : \A j \in 1..Len(gu_gcode[i]) :
             LET w == gu_gcode[i][j]
                 o == Prev.pre[i][j]
             IN  \/ w = o
                 \/ /\ o.ok
                    /\ w.c \in (IF Last.op = "MirrorX" THEN {"Y", "J"} ELSE {"X", "I"})
                    /\ w = Word(o.c, to_str(o.v))

\* both calls returned, the first changed the text, and a token came back in
\* another format than it was written in
C6_Witness ==
    /\ MirroredTwice
    /\ Prev.raised = "" /\ Last.raised = ""
    /\ Last.pre # Prev.pre
    /\ gu_gcode # Prev.pre

\* C9 as claimed: Translate, Scale, MirrorX, MirrorY, Extents, ReplaceValue and
\* ZLevels never raise, whatever tokens the text holds, and leave every token
\* whose number is malformed as it is.
C9_MalformedTokensNeverRaise ==
    (Len(gu_hist) >= 1)
    => /\ Last.raised = ""
       /\ SameShape(gu_gcode, Last.pre)
       /\ \A i \in 1..Len(gu_gcode) : \A j \in 1..Len(gu_gcode[i]) :
             ~Last.pre[i][j].ok => gu_gcode[i][j] = Last.pre[i][j]

\* C3: the pass heights that zmultipass computes are z_top - k*|stepdown|,
\* k = 1, 2, ..., as long as that is strictly above the minimum Z of the text,
\* followed by the minimum Z: strictly decreasing, none below the minimum, the
\* last one the minimum.
C3_HeightsDescendToZMin ==
    (Len(gu_hist) >= 1 /\ Last.op = "zmultipass" /\ Last.raised = "" /\ gu_ret # <<>>)
    => LET z_min == SeqMin(ZLevelsOf(Last.pre).z)
           zt == Last.arg[1][1]
           sd == Abs(Last.arg[2][1])
           n == Len(gu_ret)
       IN  /\ gu_ret[n] = z_min
           /\ \A k \in 1..(n - 1) : gu_ret[k] = zt - k * sd /\ gu_ret[k] > z_min
           /\ zt - n * sd <= z_min
           /\ \A k \in 1..(n - 1) : gu_ret[k + 1] < gu_ret[k]
           /\ \A k \in 1..n : gu_ret[k] >= z_min

\* the heights are as claimed whenever the quotient of np.arange is computed
\* exactly
C3_HeightsDescendWhenQuotientExact ==
    (Len(gu_hist) >= 1 /\ Last.op = "zmultipass" /\ gu_ret # <<>>
        /\ <<Last.arg[1][1], Abs(Last.arg[2][1]), SeqMin(ZLevelsOf(Last.pre).z)>> \notin ArangeExcess)
    => C3_HeightsDescendToZMin


(***************************************************************************)
(* Properties of ParamCheck and of repeated generation                     *)
(***************************************************************************)
\* C11: whenever ParamCheck() returns normally (called directly or at the
\* start of GCode()), z_top >= z_bottom, z_retract_dist >= RETRACT_MIN,
\* stepdown <= z_top - z_bottom and tool_dia >= stepover, whatever setters
\* were called before.
C11_ParamCheckPostconditions ==
    (lastcall = "ParamCheck" /\ raised = "")
    => /\ z_top >= z_bottom
       /\ z_retract_dist >= RETRACT_MIN
       /\ stepdown <= z_top - z_bottom
       /\ tool_dia >= stepover

\* ParamCheck() returned after setter calls and had to adjust the retract
\* distance
C11_Witness ==
    /\ lastcall = "ParamCheck" /\ raised = "" /\ ncalls >= 1
    /\ pre.z_retract_dist < RETRACT_MIN
    /\ z_retract_dist = RETRACT_MIN

\* C12: GCode() of the Rectangle, Cylinder, Face and SlotUniDi generators is
\* idempotent: a GCode() call that directly follows a GCode() call leaves the
\* buffer (and ends) as the call before it did; nothing is appended.
C12_GCodeIdempotent ==
    (lastcall = "GCode" /\ pre.lastcall = "GCode")
    => /\ gcode = pre.gcode
       /\ raised = pre.raised

\* a second GCode() in a row returned with a generated program, after setter
\* calls
C12_Witness ==
    /\ lastcall = "GCode" /\ pre.lastcall = "GCode"
    /\ raised = "" /\ gcode # <<>> /\ ncalls >= 1
    /\ kind \in {"Rectangle", "Cylinder", "Face", "SlotUniDi"}

(***************************************************************************)
(* Properties of the transforms' frame                                     *)
(***************************************************************************)
\* the transforms and the letters whose values each of them rewrites
Transforms == {"Translate", "Scale", "MirrorX", "MirrorY", "ReplaceValue", "Rotate"}

TransformedLetters(h) ==
    IF h.op \in {"Translate", "Scale"} THEN {"X", "Y", "Z"}
    ELSE IF h.op = "MirrorX" THEN {"Y", "J"}
    ELSE IF h.op = "MirrorY" THEN {"X", "I"}
    ELSE IF h.op = "ReplaceValue" THEN {h.arg[1]}
    ELSE IF h.op = "Rotate" THEN {"X", "Y"}
    ELSE {}

\* the comments and the tokens of a line that the call h does not transform
Untransformed(line, h) ==
    LET Keeps(w) == w.c \notin TransformedLetters(h)
    IN  SelectSeq(line, Keeps)

FrameKept(h, g) ==
    /\ Len(g) = Len(h.pre)
    /\ \A i \in 1..Len(g) : Untransformed(g[i], h) = Untransformed(h.pre[i], h)

\* C13: a transform (Translate, Scale, MirrorX, MirrorY, ReplaceValue,
\* Rotate) that returns leaves the number of lines as it was and, on every
\* line, the comments and the tokens it does not transform, in their order.
C13_TransformsKeepFrame ==
    (gu_hist # <<>> /\ Last.op \in Transforms /\ Last.raised = "")
    => FrameKept(Last, gu_gcode)

\* C13 without Rotate: the five substitution transforms keep the frame.
C13_SubstitutionsKeepFrame ==
    (gu_hist # <<>> /\ Last.op \in Transforms \ {"Rotate"} /\ Last.raised = "")
    => FrameKept(Last, gu_gcode)

(***************************************************************************)
(* Properties of the operations                                            *)
(***************************************************************************)
OpLast == op_hist[Len(op_hist)][1]

\* the command lines of an operation list
OpCommands(ops) ==
    LET IsCmd(l) == l # <<>> /\ l[1].c = "G"
    IN  SelectSeq(ops, IsCmd)

\* C14: for an OperationBore with a selected bore, generate(), save_gcode()
\* and cut() return without raising, and every command line that generate()
\* has emitted is a line that to_wire() turns into a tool location.
C14_BoreCutCompletes ==
    (op_kind = "Bore" /\ op_bores # <<>> /\ op_hist # <<>>
        /\ OpLast \in {"generate", "save_gcode", "cut"})
    => /\ op_raised = ""
       /\ \A k \in 1..Len(OpCommands(op_ops)) : ToWireCmd(OpCommands(op_ops)[k][1].v) = ""

\* the heights of the passes of a facing operation list: the Z of the
\* 'G0 Z' lines between the first and the last line, which go to the safe
\* height
FacePassZ(ops) ==
    LET IsZ(l) == Len(l) >= 2 /\ l[1] = Word("G", 0) /\ l[2].c = "Z"
        zs == SelectSeq(SubSeq(ops, 2, Len(ops) - 1), IsZ)
    IN  [k \in 1..Len(zs) |-> zs[k][2].v]

C15_WitnessSinglePass ==
    /\ op_kind = "Face" /\ op_hist # <<>> /\ OpLast = "generate" /\ op_raised = ""
    /\ FacePassZ(op_ops) = <<FaceOpZMin>>
    /\ Neg(op_doc) < FaceOpZMin

\* C16: after find_bores() op.bores holds exactly the bores of the part with
\* diameter_min <= diameter <= diameter_max, diameter_min being at least
\* max(1.1 * tool diameter, tool diameter + 2 * stock_to_leave_radial), whose
\* depth less stock_to_leave_axial is not greater than the tool length, for
\* the values that stock_to_leave_radial and stock_to_leave_axial have at
\* the call.
C16_FindBoresSelectsMachinable ==
    (op_kind = "Bore" /\ op_hist # <<>> /\ OpLast = "find_bores" /\ op_raised = "")
    => /\ DiameterMinGet(op_diameter_min) >= DiameterMinBound(op_stock_to_leave_radial)
       /\ op_bores = BoresSelectedByDepth(BoreFindBores(op_part),
                                          DiameterMinGet(op_diameter_min), op_diameter_max)

\* C16 without the depth: op.bores holds exactly the bores whose diameter
\* lies between diameter_min and diameter_max.
C16_FindBoresSelectsByDiameter ==
    (op_kind = "Bore" /\ op_hist # <<>> /\ OpLast = "find_bores" /\ op_raised = "")
    => /\ DiameterMinGet(op_diameter_min) >= DiameterMinBound(op_stock_to_leave_radial)
       /\ op_bores = BoresSelected(BoreFindBores(op_part),
                                   DiameterMinGet(op_diameter_min), op_diameter_max)

(***************************************************************************)
(* Properties of the blocks of zmultipass                                  *)
(***************************************************************************)
\* the line that opens the block line k of g lies in: the last line up to k
\* that holds a Z token, 0 when there is none
BlockStart(g, k) ==
    IF \E j \in 1..k : HasMatch(g[j], "Z")
    THEN CHOOSE j \in 1..k : HasMatch(g[j], "Z") /\ \A i \in (j + 1)..k : ~HasMatch(g[i], "Z")
    ELSE 0

\* line k of g belongs to a block at the minimum Z
InMinBlock(g, k, z_min) ==
    /\ BlockStart(g, k) # 0
    /\ FirstMatch(g[BlockStart(g, k)], "Z").v = z_min

\* the indices of the non-blank lines among the first n lines of g that are
\* not in a block at the minimum Z, in reading order
KeptIndices(g, n, z_min) ==
    LET Keeps(k) == g[k] # <<>> /\ ~InMinBlock(g, k, z_min)
    IN  SelectSeq([k \in 1..n |-> k], Keeps)

\* the index of the last line of g that holds a Z token
LastZLine(g) == BlockStart(g, Len(g))

\* the number of non-blank lines that the n pass copies of the blocks at the
\* minimum Z opening in the first m lines of g take: per copy the two header
\* lines and the block, a return for all but the first, a lift for all but the last
PassLineCount(g, m, n, z_min) ==
    LET starts == {k \in 1..m : HasMatch(g[k], "Z") /\ FirstMatch(g[k], "Z").v = z_min}
        in_min == {k \in 1..m : g[k] # <<>> /\ InMinBlock(g, k, z_min)}
    IN  n * Cardinality(in_min) + Cardinality(starts) * (2 * n + 2 * (n - 1))

\* the lines g[ks[i]], ..., g[ks[Len(ks)]] occur in this order in out from
\* position p on
RECURSIVE EmbedsFrom(_, _, _, _, _)
EmbedsFrom(g, ks, i, out, p) ==
    IF i > Len(ks) THEN TRUE
    ELSE IF \A q \in p..Len(out) : out[q] # g[ks[i]] THEN FALSE
    ELSE EmbedsFrom(g, ks, i + 1, out,
                    1 + CHOOSE q \in p..Len(out) :
                            out[q] = g[ks[i]] /\ \A r \in p..(q - 1) : out[r] # g[ks[i]])

\* the first m lines of the input of the last call have passed through
PassedThrough(m) ==
    LET g == Last.pre
        z_min == SeqMin(ZLevelsOf(g).z)
        ks == KeptIndices(g, m, z_min)
        NonBlank(l) == l # <<>>
    IN  /\ EmbedsFrom(g, ks, 1, gu_gcode, 1)
        /\ Len(SelectSeq(gu_gcode, NonBlank))
               = Len(ks) + PassLineCount(g, m, Len(gu_ret), z_min)

\* C17: when zmultipass returns, every non-blank line of its input that is
\* not in a block at the minimum Z, the lines from the last Z-bearing line
\* to the end included, occurs in the output unchanged, in the order of the
\* input, and the output holds nothing else than these lines and the pass
\* copies of the minimum-Z blocks.
C17_OtherBlocksPassThrough ==
    (Len(gu_hist) >= 1 /\ Last.op = "zmultipass" /\ Last.raised = "")
    => PassedThrough(Len(Last.pre))

\* the same for the lines before the last Z-bearing line: the blocks that
\* zblocks returns
C17_ClosedBlocksPassThrough ==
    (Len(gu_hist) >= 1 /\ Last.op = "zmultipass" /\ Last.raised = "")
    => PassedThrough(LastZLine(Last.pre) - 1)

\* the lines at which the blocks at the minimum Z of g open, among the first
\* m lines of g
MinBlockStarts(g, m, z_min) ==
    LET Opens(k) == HasMatch(g[k], "Z") /\ FirstMatch(g[k], "Z").v = z_min
    IN  SelectSeq([k \in 1..m |-> k], Opens)

\* the last line of the block that opens at line s
BlockEnd(g, s) ==
    IF \E j \in (s + 1)..Len(g) : HasMatch(g[j], "Z")
    THEN (CHOOSE j \in (s + 1)..Len(g) :
              HasMatch(g[j], "Z") /\ \A i \in (s + 1)..(j - 1) : ~HasMatch(g[i], "Z")) - 1
    ELSE Len(g)

\* the last value of letter c that g holds before line s
LastVal(g, s, c) ==
    LET ls == {k \in 1..(s - 1) : HasMatch(g[k], c)}
        l == g[CHOOSE k \in ls : \A j \in ls : j <= k]
        js == {j \in 1..Len(l) : l[j].c = c}
    IN  IF ls = {} THEN None ELSE Some(l[CHOOSE j \in js : \A i \in js : i <= j].v)

\* the lines of a text that are commands: neither blank nor one of the two
\* comment lines that head a pass
PassCommands(t) ==
    LET IsCommand(l) == l # <<>> /\ l[1].c \notin {"(Operation", "(Pass"}
    IN  SelectSeq(t, IsCommand)

\* the commands that replace the block opening at line s of g for the pass
\* heights hs: per height the return to the start (not for the first), the
\* block with the Z of its first line at the height, the lift to the start
\* height (not for the last)
ExpectedCopies(g, s, hs) ==
    LET b == PassCommands(SubSeq(g, s, BlockEnd(g, s)))
        plunge(z) == [j \in 1..Len(b[1]) |-> IF b[1][j].c = "Z" THEN Word("Z", z) ELSE b[1][j]]
        return == <<Word("G", 0), Word("X", LastVal(g, s, "X")[1]), Word("Y", LastVal(g, s, "Y")[1])>>
        lift == <<Word("G", 0), Word("Z", LastVal(g, s, "Z")[1])>>
        copy(i) == (IF i > 1 THEN <<return>> ELSE <<>>)
                   \o <<plunge(hs[i])>> \o Tail(b)
                   \o (IF i < Len(hs) THEN <<lift>> ELSE <<>>)
    IN  Flatten([i \in 1..Len(hs) |-> copy(i)])

\* the first position from p on at which the commands e occur in cmds, 0 for none
FirstOccurrence(cmds, e, p) ==
    LET qs == {q \in p..(Len(cmds) - Len(e) + 1) : SubSeq(cmds, q, q + Len(e) - 1) = e}
    IN  IF qs = {} THEN 0 ELSE CHOOSE q \in qs : \A r \in qs : q <= r

\* the copies of the blocks opening at lines starts[k], starts[k+1], ... of g
\* occur one after the other in cmds from position p on
RECURSIVE CopiesFrom(_, _, _, _, _, _)
CopiesFrom(g, starts, k, hs, cmds, p) ==
    IF k > Len(starts) THEN TRUE
    ELSE LET e == ExpectedCopies(g, starts[k], hs)
             q == FirstOccurrence(cmds, e, p)
         IN  q # 0 /\ CopiesFrom(g, starts, k + 1, hs, cmds, q + Len(e))

\* the blocks at the minimum Z that open in the first m lines of the input
\* of the last call have been replaced by their copies
Replaced(m) ==
    LET g == Last.pre
        z_min == SeqMin(ZLevelsOf(g).z)
    IN  /\ \A i \in 1..(Len(gu_ret) - 1) : gu_ret[i] >= gu_ret[i + 1]
        /\ CopiesFrom(g, MinBlockStarts(g, m, z_min), 1, gu_ret, PassCommands(gu_gcode), 1)

\* C18: when zmultipass returns, the output holds for every block at the
\* minimum Z one copy per pass height, in the order of the heights, which
\* descend; every copy but the last ends with the lift 'G0 Z<start Z>', every
\* copy but the first begins with the return 'G0 X<start X> Y<start Y>' ahead
\* of its Z plunge, and the start X, Y and Z of a block are the last X, Y
\* and Z values of the program before the first line of the block.
C18_MinBlocksReplacedByCopies ==
    (Len(gu_hist) >= 1 /\ Last.op = "zmultipass" /\ Last.raised = "")
    => Replaced(Len(Last.pre))

\* the same for the blocks at the minimum Z that a later Z-bearing line closes
C18_ClosedMinBlocksReplaced ==
    (Len(gu_hist) >= 1 /\ Last.op = "zmultipass" /\ Last.raised = "")
    => Replaced(LastZLine(Last.pre) - 1)

(***************************************************************************)
(* Properties of Extents                                                   *)
(***************************************************************************)
\* C19: Extents() returns for every axis with a token the minimum and the
\* maximum of the values of all tokens of the axis, in whatever order they
\* occur, and 0 for both bounds of an axis without a token.
C19_ExtentsAreMinAndMax ==
    (Len(gu_hist) >= 1 /\ Last.op = "Extents" /\ Last.raised = "")
    => \A a \in 1..3 :
          LET vals == AxisVals(Last.pre, <<"X", "Y", "Z">>[a])
          IN  IF vals = {} THEN gu_ret[a] = 0 /\ gu_ret[a + 3] = 0
              ELSE gu_ret[a] = SetMin(vals) /\ gu_ret[a + 3] = SetMax(vals)

\* the minimum is right for every text, and so is the maximum of an axis
\* whose largest value does not also set a new minimum where it occurs first:
\* it is not the first value, and a smaller one precedes it
C19_ExtentsMinimumIsRight ==
    (Len(gu_hist) >= 1 /\ Last.op = "Extents" /\ Last.raised = "")
    => \A a \in 1..3 :
          LET c == <<"X", "Y", "Z">>[a]
              ms == Matches(Last.pre, c)
              vals == AxisVals(Last.pre, c)
              first == CHOOSE k \in 1..Len(ms) :
                           ms[k].v = SetMax(vals) /\ \A j \in 1..(k - 1) : ms[j].v # SetMax(vals)
          IN  IF vals = {} THEN gu_ret[a] = 0 /\ gu_ret[a + 3] = 0
              ELSE /\ gu_ret[a] = SetMin(vals)
                   /\ (\E j \in 1..(first - 1) : ms[j].v <= SetMax(vals))
                      => gu_ret[a + 3] = SetMax(vals)

(***************************************************************************)
(* Properties of the passes of the cylinder                                *)
(***************************************************************************)
\* GCode() has returned for a cylinder with z_top > z_bottom and a stepdown
\* that was positive at the call
CylinderCut == kind = "Cylinder" /\ Generated /\ z_top > z_bottom /\ pre.stepdown > 0

\* the lines of the passes in order: k is in PassOrder[i] iff pass i opens at line k
PassOrder ==
    LET Opens(k) == IsPassComment(gcode[k])
    IN  SelectSeq([k \in 1..Len(gcode) |-> k], Opens)

\* the moves that carry a Z
IsZMove(l) == l.cmd \in {"G0", "G1"} /\ l.z # None

\* every pass restarts the polygon at its point 0 and runs through the
\* points 0 .. segments-1 of the helix circle with a Z; its first Z is z_top
\* for the first pass and stepdown below the first Z of the pass before it,
\* held at z_bottom; the Z of the cutting moves never rises, and no move is
\* below z_bottom
PassesDescend ==
    LET ps == PassOrder
        zmoves == SelectSeq(SubSeq(gcode, ps[1], LastPoint), IsZMove)
        Lower(z) == IF z - stepdown < z_bottom THEN z_bottom ELSE z - stepdown
    IN  /\ \A i \in 1..Len(ps) : \A j \in 1..segments :
              LET l == gcode[ps[i] + j]
              IN  IsPoint(l) /\ l.cmd = "G1" /\ l.idx = Some(j - 1) /\ l.z # None
                  /\ l.r = gcode[ps[1] + 1].r /\ l.x = gcode[ps[1] + 1].x
                  /\ l.y = gcode[ps[1] + 1].y
        /\ gcode[ps[1] + 1].z = Some(z_top)
        /\ \A i \in 1..(Len(ps) - 1) :
              gcode[ps[i + 1] + 1].z = Some(Lower(gcode[ps[i] + 1].z[1]))
        /\ \A k \in 1..(Len(zmoves) - 1) : zmoves[k].z[1] >= zmoves[k + 1].z[1]
        /\ \A k \in 1..Len(gcode) : IsZMove(gcode[k]) => gcode[k].z[1] >= z_bottom

\* C20 as claimed: for z_top > z_bottom and stepdown > 0 the cylinder
\* generator emits exactly ceil((z_top - z_bottom)/stepdown) passes, each
\* pass restarts the same polygon with Z continuing downward from the pass
\* before, and no emitted Z is below z_bottom.
C20_CylinderPassCountIsCeil ==
    CylinderCut
    => /\ Cardinality(PassStarts) = Ceil(z_top - z_bottom, stepdown)
       /\ PassesDescend

\* C20, amended: the number of passes is ceil((z_top - z_bottom)/stepdown),
\* and one more when stepover = 0 and the quotient is not a whole number (the
\* additional pass at the bottom); each pass restarts the same polygon with Z
\* continuing downward from the pass before, and no emitted Z is below z_bottom.
C20_CylinderPassCount ==
    CylinderCut
    => /\ Cardinality(PassStarts)
             = Ceil(z_top - z_bottom, stepdown)
               + (IF stepover = 0 /\ (z_top - z_bottom) % stepdown # 0 THEN 1 ELSE 0)
       /\ PassesDescend

\* an additional pass at the bottom has been emitted
C20_Witness ==
    /\ CylinderCut
    /\ stepover = 0 /\ (z_top - z_bottom) % stepdown # 0
    /\ Cardinality(PassStarts) = 3
    /\ \E k \in PassStarts : \A j \in 1..segments : gcode[k + j].z = Some(z_bottom)

\* a finishing cut after every pass, and no additional pass
C20_WitnessStepover ==
    /\ CylinderCut
    /\ stepover > 0 /\ (z_top - z_bottom) % stepdown # 0
    /\ Cardinality(PassStarts) = 2

(***************************************************************************)
(* Properties of the mirrors                                               *)
(***************************************************************************)
\* the letters that the last call, a mirror, negates
MirroredLetters == IF Last.op = "MirrorX" THEN {"Y", "J"} ELSE {"X", "I"}

IsMoveWithXY(line) ==
    /\ Len(line) >= 1
    /\ line[1].c = "G" /\ line[1].v \in {0, 10000}
    /\ (HasMatch(line, "X") \/ HasMatch(line, "Y"))

\* the tokens of letter c of a line, in order
TokensOf(line, c) ==
    LET IsC(w) == w.c = c
    IN  SelectSeq(line, IsC)

\* twice the centre of the bounding box of the tokens of letter c, 0 without any
BoxCentre2(g, c) == IF AxisVals(g, c) = {} THEN 0 ELSE TrueCentre2(g, c)

\* line `new` is line `old` rotated by angle about the point of which cx2, cy2
\* are the double: the axes of old and no other, at the rotated position of
\* (x or 0, y or 0) within half a thousandth, and the Z and F tokens of old
RotatedAs(old, new, angle, cx2, cy2) ==
    LET x0 == (IF HasMatch(old, "X") THEN 2 * FirstMatch(old, "X").v ELSE 0) - cx2
        y0 == (IF HasMatch(old, "Y") THEN 2 * FirstMatch(old, "Y").v ELSE 0) - cy2
        xr2 == x0 * RotCos(angle) - y0 * RotSin(angle) + cx2
        yr2 == x0 * RotSin(angle) + y0 * RotCos(angle) + cy2
    IN  /\ Len(TokensOf(new, "X")) = Len(TokensOf(old, "X"))
        /\ Len(TokensOf(new, "Y")) = Len(TokensOf(old, "Y"))
        /\ HasMatch(old, "X") => Near(2 * FirstMatch(new, "X").v, xr2, 10)
        /\ HasMatch(old, "Y") => Near(2 * FirstMatch(new, "Y").v, yr2, 10)
        /\ TokensOf(new, "Z") = TokensOf(old, "Z")
        /\ TokensOf(new, "F") = TokensOf(old, "F")

\* the last call, a Rotate that returned, has rotated the G0/G1 lines with X
\* or Y about the point of which cx2, cy2 are the double and kept the others
RotatedAbout(cx2, cy2) ==
    /\ Len(gu_gcode) = Len(Last.pre)
    /\ \A i \in 1..Len(gu_gcode) :
          IF IsMoveWithXY(Last.pre[i])
          THEN RotatedAs(Last.pre[i], gu_gcode[i], Last.arg[1], cx2, cy2)
          ELSE gu_gcode[i] = Last.pre[i]

\* C22: Rotate(angle, cx, cy), angle a multiple of 90 degrees, rotates the
\* point (x or 0, y or 0) of every G0/G1 line with X or Y about (cx, cy), an
\* absent cx or cy being that of the centre of the bounding box; it emits the
\* axes the line had and no other, keeps the Z and F tokens of the line, and
\* leaves every other line unchanged.
C22_RotateAboutCentre ==
    (Len(gu_hist) >= 1 /\ Last.op = "Rotate" /\ Last.raised = "")
    => RotatedAbout(IF Last.arg[2] = None THEN BoxCentre2(Last.pre, "X") ELSE 2 * Last.arg[2][1],
                    IF Last.arg[3] = None THEN BoxCentre2(Last.pre, "Y") ELSE 2 * Last.arg[3][1])

\* the same about the centre that Center() returns for the text
C22_RotateAboutCenterOfExtents ==
    (Len(gu_hist) >= 1 /\ Last.op = "Rotate" /\ Last.raised = "")
    => RotatedAbout(IF Last.arg[2] = None THEN Center2(ExtentsOf(Last.pre).ext)[1]
                    ELSE 2 * Last.arg[2][1],
                    IF Last.arg[3] = None THEN Center2(ExtentsOf(Last.pre).ext)[2]
                    ELSE 2 * Last.arg[3][1])

(***************************************************************************)
(* Properties of the levels of the facing path                             *)
(***************************************************************************)
\* a facing path has been generated by a call that returned
FaceCut == kind = "Face" /\ Generated

\* the lines that open the levels, in order, followed by the line that opens
\* the cleanup
FaceMarks ==
    LET Opens(k) == gcode[k].txt \in {"---- Facing Pass", "Cleanup"}
    IN  SelectSeq([k \in 1..Len(gcode) |-> k], Opens)

FaceLevelCount == Len(FaceMarks) - 1

\* the Z of level i: the move that follows its two comment lines
FaceLevelZ(i) == gcode[FaceMarks[i] + 2].z[1]

\* the pre-position move to the start X/Y
FaceStart == gcode[CHOOSE k \in 1..Len(gcode) :
                      /\ gcode[k].cmd = "G0" /\ gcode[k].x # None /\ gcode[k].y # None
                      /\ \A j \in 1..(k - 1) : gcode[j].cmd # "G0" \/ gcode[j].x = None]

\* level i closes with the retrace: the lift to the retract height, then the
\* move to the start X/Y, then the blank line before the next mark
FaceRetraced(i) ==
    LET k == FaceMarks[i + 1]
    IN  /\ k - 3 > FaceMarks[i] + 2
        /\ gcode[k - 3].cmd = "G1" /\ gcode[k - 3].z = Some(z_top + z_retract_dist)
        /\ gcode[k - 3].x = None /\ gcode[k - 3].y = None
        /\ gcode[k - 2].cmd = "G1" /\ gcode[k - 2].z = None
        /\ gcode[k - 2].x = FaceStart.x /\ gcode[k - 2].y = FaceStart.y

\* the Z moves of level i are its own and those of its retrace, if any
FaceZMovesOf(i) == { k \in (FaceMarks[i] + 1)..(FaceMarks[i + 1] - 1) : gcode[k].z # None }

\* in level i every forward stroke is followed by a stepover in X and a
\* reverse stroke to the start Y, and the last stroke of the level, if it has
\* any, ends at the start Y
FaceStrokesPaired(i) ==
    LET ks == { k \in (FaceMarks[i] + 3)..(FaceMarks[i + 1] - 1) :
                   gcode[k].z = None /\ gcode[k].y # None /\ gcode[k].x = None }
    IN  /\ \A k \in ks :
              gcode[k].y # FaceStart.y
              => /\ gcode[k].cmd = "G1"
                 /\ gcode[k + 1].cmd = "G0" /\ gcode[k + 1].x # None /\ gcode[k + 1].y = None
                 /\ gcode[k + 1].z = None
                 /\ k + 2 \in ks /\ gcode[k + 2].cmd = "G1" /\ gcode[k + 2].y = FaceStart.y
        /\ \A k \in ks : (\A j \in ks : j <= k) => gcode[k].y = FaceStart.y

\* the levels descend strictly to z_bottom, each but the last closes with
\* the retrace and the last does not, and the strokes come in pairs
FaceLevelsDescend ==
    LET n == FaceLevelCount
    IN  /\ n >= 1
        /\ \A i \in 1..n :
              /\ gcode[FaceMarks[i] + 2].cmd = "G0" /\ gcode[FaceMarks[i] + 2].z # None
              /\ FaceLevelZ(i) >= z_bottom
              /\ FaceStrokesPaired(i)
        /\ \A i \in 1..(n - 1) :
              /\ FaceLevelZ(i) > FaceLevelZ(i + 1)
              /\ FaceRetraced(i)
              /\ FaceZMovesOf(i) = {FaceMarks[i] + 2, FaceMarks[i + 1] - 3}
        /\ FaceLevelZ(n) = z_bottom
        /\ FaceZMovesOf(n) = {FaceMarks[n] + 2}

\* C23: ToolPathFace.GCode() emits exactly ceil((z_top - z_bottom)/stepdown)
\* levels whose Z strictly decrease, are never below z_bottom and end at
\* z_bottom; every level but the last is followed by the retrace (lift to the
\* retract height, move to the start X/Y) before the Z move of the next one,
\* and in a level every forward stroke in Y is followed by a stepover in X
\* and a reverse stroke, so that the level ends at the start Y.
C23_FaceLevels ==
    FaceCut
    => /\ FaceLevelCount = Ceil(z_top - z_bottom, stepdown)
       /\ FaceLevelsDescend

\* the same for the calls in which the repeated subtraction of the stepdown
\* is exact
C23_FaceLevelsWhenExact ==
    (FaceCut /\ <<z_top, z_bottom, stepdown>> \notin FaceResidue)
    => C23_FaceLevels

(***************************************************************************)
(* Properties of the passes of the slot                                    *)
(***************************************************************************)
\* a slot has been generated by a call that returned
SlotCut == kind = "SlotUniDi" /\ Generated

\* the lines that open the passes, in order, followed by the line that opens
\* the cleanup
SlotMarks ==
    LET Opens(k) == gcode[k].txt \in {"---- Pass", "Cleanup"}
    IN  SelectSeq([k \in 1..Len(gcode) |-> k], Opens)

SlotPassCount == Len(SlotMarks) - 1

\* the relative plunge of pass i, a positive depth
SlotPlunge(i) == Neg(gcode[SlotMarks[i] + 2].z[1])

\* the moves of the program
SlotMoves == { k \in 1..Len(gcode) : gcode[k].cmd \in {"G0", "G1"} }

\* pass i closes with the three moves of the retrace
SlotRetraced(i) ==
    LET k == SlotMarks[i + 1]
        up == gcode[k - 4]
        back == gcode[k - 3]
        down == gcode[k - 2]
    IN  /\ k - 4 > SlotMarks[i] + 3
        /\ up.cmd = "G1" /\ up.x = None /\ up.y = None
        /\ up.z = Some(z_top + z_retract_dist)
        /\ back.cmd = "G1" /\ back.z = None /\ back.x = Some(Neg(x)) /\ back.y = Some(Neg(y))
        /\ down.cmd = "G1" /\ down.x = None /\ down.y = None
        /\ down.z = Some(Neg(up.z[1]))

\* the moves of pass i
SlotMovesOf(i) == { k \in SlotMoves : SlotMarks[i] < k /\ k < SlotMarks[i + 1] }

\* the passes plunge and cut, the plunges are the stepdown but for the last,
\* which is what is left of the depth, each but the last closes with the
\* retrace, and the XY moves of the program cancel: each is (x, y) or
\* (-x, -y), as many of the one as of the other
SlotPassesReachDepth ==
    LET n == SlotPassCount
        xy == { k \in SlotMoves : gcode[k].x # None \/ gcode[k].y # None }
        fwd == { k \in xy : gcode[k].x = Some(x) /\ gcode[k].y = Some(y) }
        rev == { k \in xy : gcode[k].x = Some(Neg(x)) /\ gcode[k].y = Some(Neg(y)) }
    IN  /\ n >= 1
        /\ \A i \in 1..n :
              LET plunge == gcode[SlotMarks[i] + 2]
                  cutmove == gcode[SlotMarks[i] + 3]
              IN  /\ plunge.cmd = "G0" /\ plunge.z # None /\ plunge.x = None /\ plunge.y = None
                  /\ cutmove.cmd = "G1" /\ cutmove.z = None
                  /\ cutmove.x = Some(x) /\ cutmove.y = Some(y)
        /\ \A i \in 1..(n - 1) :
              /\ SlotPlunge(i) = stepdown
              /\ SlotRetraced(i)
              /\ SlotMovesOf(i) = { SlotMarks[i] + 2, SlotMarks[i] + 3, SlotMarks[i + 1] - 4,
                                    SlotMarks[i + 1] - 3, SlotMarks[i + 1] - 2 }
        /\ SlotPlunge(n) = depth - (n - 1) * stepdown
        /\ 0 < SlotPlunge(n) /\ SlotPlunge(n) <= stepdown
        /\ SlotMovesOf(n) = { SlotMarks[n] + 2, SlotMarks[n] + 3 }
        /\ xy = fwd \cup rev
        /\ Cardinality(fwd) = Cardinality(rev)

\* C24: ToolPathSlotUniDi.GCode() emits exactly ceil(depth/stepdown) passes
\* whose relative plunges sum to the depth, the last one shortened and none
\* overshooting; every cut but the last is followed by the retrace of three
\* moves: Z up by the retract amount, XY by (-x, -y), Z down by the same
\* amount; and the relative XY moves of the program sum to zero.
C24_SlotPasses ==
    SlotCut
    => /\ SlotPassCount = CeilDiv(depth, stepdown)
       /\ SlotPassesReachDepth

\* the same for the calls in which the repeated subtraction of the stepdown
\* is exact
C24_SlotPassesWhenExact ==
    (SlotCut /\ <<depth, stepdown>> \notin SlotResidue)
    => C24_SlotPasses

(***************************************************************************)
(* Properties of ReplaceValue                                              *)
(***************************************************************************)
\* the last call is a ReplaceValue that returned
Replacing == Len(gu_hist) >= 1 /\ Last.op = "ReplaceValue" /\ Last.raised = ""

\* w is the value v as _to_str writes it: a multiple of a thousandth within
\* half a thousandth of v, and v itself if v has no more than three decimals
Written(w, v) == w % 10 = 0 /\ Near(w, v, 5) /\ (v % 10 = 0 => w = v)

\* the tokens of the command that are not close to the old value keep their
\* value as written, and every other token and text is the same
ReplaceKeepsTheOthers ==
    /\ SameShape(gu_gcode, Last.pre)
    /\ \A i \in 1..Len(gu_gcode) : \A j \in 1..Len(gu_gcode[i]) :
          LET w == gu_gcode[i][j]
              o == Last.pre[i][j]
          IN  IF o.c # Last.arg[1] THEN w = o
              ELSE /\ w.c = o.c
                   /\ ~IsClose(o.v, Last.arg[2]) => Written(w.v, o.v)

\* the tokens of the last call that were close to the old value
Replaceable ==
    UNION { { <<i, j>> : j \in { k \in 1..Len(Last.pre[i]) :
                                    /\ Last.pre[i][k].c = Last.arg[1]
                                    /\ IsClose(Last.pre[i][k].v, Last.arg[2]) } } :
            i \in 1..Len(Last.pre) }

FixLine(z, f) == [z |-> z, f |-> f]

\* 'G1 Z15', 'G1 Z15 F300', 'G1 X10 Y10', 'G1 X20 F500', 'G1 Z-1'
FixLines ==
    { FixLine(Some(150000), None), FixLine(Some(150000), Some(300)), FixLine(None, None),
      FixLine(None, Some(500)), FixLine(Some(-10000), None) }

MaxFixLines == 3
MaxFixCalls == 2

\* the texts, the empty one among them
FixTexts == UNION {[1..n -> FixLines] : n \in 0..MaxFixLines}

RetractHeightVals == {200000}
PositioningSpeedVals == {2000}

\* retract_height setter (39-46)
set_retract_height ==
    \E v \in RetractHeightVals :
        /\ sf_retract_height' = v
        /\ UNCHANGED <<sf_positioning_speed, sf_z_state, sf_hist, tpvars, guvars, opvars>>

\* positioning_speed setter (56-63)
set_positioning_speed ==
    \E v \in PositioningSpeedVals :
        /\ sf_positioning_speed' = v
        /\ UNCHANGED <<sf_retract_height, sf_z_state, sf_hist, tpvars, guvars, opvars>>

\* the state machine transition on a line (104-126): <<>> for none
StateNew(z_state, z_pos, retract_height) ==
    IF z_pos = None THEN None
    ELSE IF z_state = "Unknown"
    THEN (IF z_pos[1] >= retract_height THEN Some("Retracted") ELSE Some("Cutting"))
    ELSE IF z_state = "Cutting"
    THEN (IF z_pos[1] >= retract_height THEN Some("Retracted") ELSE None)
    ELSE (IF z_pos[1] < retract_height THEN Some("Cutting") ELSE None)

\* one turn of the loop over the lines (86-149) on line i: st is
\* [z_state, last_speed, out]
FixStep(st, line, i, retract_height, positioning_speed) ==
    LET new_speed == line.f
        last_speed == IF new_speed # None THEN new_speed[1] ELSE st.last_speed
        state_new == StateNew(st.z_state, line.z, retract_height)
        own == [z |-> line.z, f |-> line.f, of |-> i]
        emitted ==
            IF state_new = Some("Retracted") /\ new_speed = None
            THEN <<[own EXCEPT !.f = Some(positioning_speed)]>>
            ELSE IF state_new = Some("Cutting") /\ new_speed = None
            THEN <<own, [z |-> None, f |-> Some(last_speed), of |-> 0]>>
            ELSE <<own>>
    IN  [z_state |-> IF state_new # None THEN state_new[1] ELSE st.z_state,
         last_speed |-> last_speed,
         out |-> st.out \o emitted]

\* the loop from line i on
RECURSIVE FixLoop(_, _, _, _, _)
FixLoop(st, text, i, retract_height, positioning_speed) ==
    IF i > Len(text) THEN st
    ELSE FixLoop(FixStep(st, text[i], i, retract_height, positioning_speed),
                 text, i + 1, retract_height, positioning_speed)

\* the line that closes the returned text (151-152)
FixLastLine == [z |-> None, f |-> None, of |-> 0]

\* speed_fix(gcode) (65-154): last_speed starts at 0, the Z state is the one
\* the object holds
speed_fix ==
    \E g \in FixTexts :
        LET r == FixLoop([z_state |-> sf_z_state, last_speed |-> 0, out |-> <<>>], g, 1,
                         sf_retract_height, sf_positioning_speed)
        IN  /\ Len(sf_hist) < MaxFixCalls
            /\ sf_z_state' = r.z_state
            /\ sf_hist' = Append(sf_hist,
                                 [gcode |-> g, ret |-> r.out \o <<FixLastLine>>,
                                  retract_height |-> sf_retract_height,
                                  positioning_speed |-> sf_positioning_speed,
                                  z_state |-> sf_z_state])
            /\ UNCHANGED <<sf_retract_height, sf_positioning_speed, tpvars, guvars, opvars>>

InitSpeedFix ==
    /\ TpIdle
    /\ GuIdle
    /\ OpIdle
    /\ SfIdle

NextSpeedFix ==
    \/ set_retract_height
    \/ set_positioning_speed
    \/ speed_fix

SpecSpeedFix == InitSpeedFix /\ [][NextSpeedFix]_vars

(***************************************************************************)
(* Properties of speed_fix                                                 *)
(***************************************************************************)
\* the last call of speed_fix
Fixed == sf_hist[Len(sf_hist)]

\* the feed rate in effect on line k of a text: the F of the last line up to
\* k that holds one, <<>> if there is none
RateAt(text, k) ==
    LET js == { j \in 1..k : text[j].f # None }
    IN  IF js = {} THEN None ELSE text[CHOOSE j \in js : \A m \in js : m <= j].f

\* the height of the tool on line k of a text: the Z of the last line up to k
\* that holds one
HeightAt(text, k) ==
    LET js == { j \in 1..k : text[j].z # None }
    IN  IF js = {} THEN None ELSE text[CHOOSE j \in js : \A m \in js : m <= j].z

\* line k of the text is at or above the height h
AtOrAbove(text, k, h) == k >= 1 /\ HeightAt(text, k) # None /\ HeightAt(text, k)[1] >= h

\* every move of the returned text at or above the retract height runs at
\* the positioning speed
FastWhileRetracted(c) ==
    \A k \in 1..Len(c.ret) :
        (c.ret[k].of # 0 /\ AtOrAbove(c.ret, k, c.retract_height))
        => RateAt(c.ret, k) = Some(c.positioning_speed)

\* after a Z move that returns below the retract height the feed rate in
\* effect is the last one the input gave up to that move, if it gave any
FeedRestored(c) ==
    \A k \in 2..Len(c.ret) :
        (/\ c.ret[k].z # None /\ c.ret[k].z[1] < c.retract_height
         /\ AtOrAbove(c.ret, k - 1, c.retract_height)
         /\ RateAt(c.gcode, c.ret[k].of) # None)
        => RateAt(c.ret, k + 1) = RateAt(c.gcode, c.ret[k].of)

\* the lines of the input are in the returned text, in their order, each
\* with its Z and with its F or, if it had none, possibly with one added
InputKept(c) ==
    LET IsInput(l) == l.of # 0
        kept == SelectSeq(c.ret, IsInput)
    IN  /\ Len(kept) = Len(c.gcode)
        /\ \A i \in 1..Len(kept) :
              /\ kept[i].of = i
              /\ kept[i].z = c.gcode[i].z
              /\ (kept[i].f = c.gcode[i].f \/ c.gcode[i].f = None)

\* C26: in the text that speed_fix returns every move made at or above the
\* retract height (from a Z move to Z >= retract_height up to the next Z
\* move to Z < retract_height) runs at positioning_speed, after the Z move
\* that returns below the retract height the feed rate in effect is the last
\* one given by the input, and every input line is there in its order.
C26_RetractedMovesAreFast ==
    Len(sf_hist) >= 1
    => /\ FastWhileRetracted(Fixed)
       /\ FeedRestored(Fixed)
       /\ InputKept(Fixed)

\* no line of the input at or above the height h gives a feed rate
NoFeedAbove(text, h) == \A i \in 1..Len(text) : text[i].f # None => ~AtOrAbove(text, i, h)

\* the same for a call that starts in the state Unknown on a text that gives
\* no feed rate at or above the retract height; the restored feed rate and
\* the order of the lines for every call
C26_FastWhereNoFeedIsGiven ==
    Len(sf_hist) >= 1
    => /\ (Fixed.z_state = "Unknown" /\ NoFeedAbove(Fixed.gcode, Fixed.retract_height))
          => FastWhileRetracted(Fixed)
       /\ FeedRestored(Fixed)
       /\ InputKept(Fixed)

\* C30: speed_fix is a function of its text and of the two parameters: two
\* calls on one object with the same text, retract height and positioning
\* speed return the same text, whatever was processed in between.
C30_SameTextSameOutput ==
    \A i, j \in 1..Len(sf_hist) :
        (/\ sf_hist[i].gcode = sf_hist[j].gcode
         /\ sf_hist[i].retract_height = sf_hist[j].retract_height
         /\ sf_hist[i].positioning_speed = sf_hist[j].positioning_speed)
        => sf_hist[i].ret = sf_hist[j].ret

\* the same for two calls that start in the same Z state
C30_SameStateSameOutput ==
    \A i, j \in 1..Len(sf_hist) :
        (/\ sf_hist[i].gcode = sf_hist[j].gcode
         /\ sf_hist[i].retract_height = sf_hist[j].retract_height
         /\ sf_hist[i].positioning_speed = sf_hist[j].positioning_speed
         /\ sf_hist[i].z_state = sf_hist[j].z_state)
        => sf_hist[i].ret = sf_hist[j].ret

(***************************************************************************)
(* Termination of the generators                                           *)
(***************************************************************************)
\* C27: generation always terminates: for every parameter set that the
\* validation accepts (ParamCheck for the ToolPath generators, the property
\* setters for the operations), stepover = 0, woc = 0, doc = 0 and
\* z_top = z_bottom among them, GCode() and generate() return or raise; no
\* call runs forever.
C27_GenerationReturns == raised # "NoReturn" /\ op_raised # "NoReturn"

\* the same for the generators other than the facing path
C27_OtherGeneratorsReturn == kind # "Face" => raised # "NoReturn"

\* the facing path returns or raises when its stepover is positive
C27_FaceReturnsWithStepover ==
    (kind = "Face" /\ lastcall = "GCode" /\ stepover > 0) => raised # "NoReturn"

\* the facing and boring operations return or raise when woc and doc are
\* positive
C27_OperationReturnsWithCuts == (op_woc > 0 /\ op_doc > 0) => op_raised # "NoReturn"

(***************************************************************************)
(* Properties of a rejected configuration                                  *)
(***************************************************************************)
\* the step is a ParamCheck() or GCode() call that raises ValueError
Rejects == lastcall' \in {"ParamCheck", "GCode"} /\ raised' = "ValueError"

\* C28: when ParamCheck() or GCode() raises a ValueError, z_retract_dist,
\* stepdown, stepover, tool_dia, z_top and z_bottom have the values they had
\* before the call: a rejected configuration is not adjusted in part.
C28_RejectedLeavesParameters ==
    [][Rejects => UNCHANGED <<z_retract_dist, stepdown, stepover, tool_dia, z_top, z_bottom>>]_vars

\* the same for the rejection of z_top < z_bottom, and for the four
\* parameters that ParamCheck never assigns
C28_RejectedHeightsLeaveParameters ==
    [][Rejects => /\ UNCHANGED <<stepover, tool_dia, z_top, z_bottom>>
                  /\ z_top < z_bottom => UNCHANGED <<z_retract_dist, stepdown>>]_vars

(***************************************************************************)
(* Properties of what an Operation caches (operations.py 254-501)          *)
(***************************************************************************)
\* the call that a step makes on the Operation object, "" for no call
OpCalls == IF Len(op_hist') > Len(op_hist) THEN op_hist'[Len(op_hist')][1] ELSE ""

\* the operation list and the locations that the parameters of this state
\* give: generate() followed by the parsing of to_wire()
OpDerived == CHOOSE r \in {ToWireOf(g) : g \in {OpGenerated}} : TRUE

\* nothing was cut yet: the stock and the tool position are those of the
\* construction
OpUncut == op_stock.cuts = 0 /\ op_tool.position = <<0, 0, 0>>

\* a returning read of gcode returns the lines of the current parameters
GcodeIsCurrent ==
    (OpCalls = "gcode" /\ op_raised' = "") => op_ops' = OpGenerated.ops

\* a returning cut() sweeps the locations of the current parameters, where
\* these give locations
CutIsCurrent ==
    (OpCalls = "cut" /\ op_raised' = "" /\ OpDerived.err = "")
        => op_locations' = OpDerived.locations

\* C29: on an Operation that has cut nothing yet, after any setter,
\* generate(), to_wire() and cut() calls, the text that gcode returns and
\* the locations that cut() sweeps are those derived from the current
\* parameter values
C29_NoStaleCache ==
    [][OpUncut => GcodeIsCurrent /\ CutIsCurrent]_vars

\* the half of C29 about the text: setters clear the operation list
C29_GcodeIsCurrent ==
    [][OpUncut => GcodeIsCurrent]_vars

\* a gcode read that found a list generated before: the case of C29_GcodeIsCurrent
C29_GcodeReadOfStoredList ==
    /\ Len(op_hist) = 3 /\ op_hist[1][1] = "generate" /\ op_hist[2][1] = "doc"
    /\ op_hist[3][1] = "gcode" /\ op_raised = "" /\ op_doc = 7500
====
